---- MODULE Spec2Model ----
(***************************************************************************)
(* A model of the janki-frontend client: the Manage Documents page with    *)
(* its status-convergence pollers, the NextAuth jwt callback (backend      *)
(* session bridge), the axios API client interceptors, the chat page's     *)
(* send handler and conversation effects over the zustand store, and the   *)
(* View Documents page.                                                    *)
(*                                                                         *)
(* One action is one run of JavaScript between two suspensions: a handler  *)
(* up to its first await, or the continuation that runs when a response    *)
(* arrives or a timer fires, together with the promise continuations that  *)
(* become runnable in the same turn of the event loop.                     *)
(***************************************************************************)
EXTENDS Integers, Sequences, FiniteSets, TLC

(***************************************************************************)
(* Bounds of the model.                                                    *)
(***************************************************************************)
\* The pollers' attempt budget (the code's default is 30).
MaxAttempts == 2

\* jwt callback invocations after a sign-in.
MaxCalls == 3

\* Chat messages the user sends in a run.
MaxSends == 2
MaxMessages == 4
MaxFetches == 3

\* Document ids the backend may issue or list.
DocIds == {"d1", "d2"}
\* The documents the backend holds when the page is opened; the other ids are
\* issued by uploads.
PreExisting == {"d1"}

\* The value of an absent (null / undefined) field.
Absent == "<absent>"

(***************************************************************************)
(* API client: the response interceptor's error translation.               *)
(***************************************************************************)
\* A JSON value as far as the interceptor looks at it.
AbsentVal == [t |-> "absent"]
StrVal(s) == [t |-> "str", v |-> s]
ArrVal(a) == [t |-> "arr", v |-> a]
ObjVal == [t |-> "obj"]
NullVal == [t |-> "null"]
NumVal(n) == [t |-> "num", v |-> n]
BoolVal(b) == [t |-> "bool", v |-> b]
FormDataVal == [t |-> "formdata"]

\* JavaScript truthiness: undefined, null, "", 0 and false are falsy; arrays
\* and objects are truthy.
Truthy(x) ==
  CASE x.t \in {"absent", "null"} -> FALSE
    [] x.t = "str" -> x.v # ""
    [] x.t = "num" -> x.v # 0
    [] x.t = "bool" -> x.v
    [] OTHER -> TRUE

\* a || b on values whose result is used as a message.
OrElse(a, b) == IF Truthy(a) THEN a ELSE b

\* The text `new Error(x)` carries for a value x that was chosen by ||.
ErrorText(x) ==
  CASE x.t = "str" -> x.v
    [] x.t = "arr" -> "[array]"
    [] x.t = "obj" -> "[object Object]"
    [] OTHER -> ""

RECURSIVE JoinWith(_, _)
JoinWith(parts, sep) ==
  IF Len(parts) = 0 THEN ""
  ELSE IF Len(parts) = 1 THEN parts[1]
  ELSE parts[1] \o sep \o JoinWith(Tail(parts), sep)

\* `${err.loc?.join(".") || "field"}: ${err.msg}` for one FastAPI field error.
FieldError(e) ==
  (IF JoinWith(e.loc, ".") = "" THEN "field" ELSE JoinWith(e.loc, "."))
    \o ": " \o e.msg

\* The texts of the Errors the interceptor throws; the 401 text stands without
\* the warning sign the code puts in front of it.
MsgUnreachable ==
  "Cannot connect to backend server. Please make sure the backend is running on http://localhost:8000"
MsgReauthenticate ==
  "Your authentication token has expired or is invalid. Please try logging out and back in to refresh your session."
MsgPermissionDenied == "Permission denied"
MsgServerError == "Server error. Please check backend logs and try again."
MsgNotFound == "Resource not found. Please check your request."
MsgBadRequest == "Bad request. Please check your input."
MsgGeneric == "An error occurred. Please try again."
MsgInvalidFormat == "Invalid request format. Please check your file and try again."

\* The 422 branch of the response interceptor.
ValidationMessage(data) ==
  IF Truthy(data.detail)
  THEN CASE data.detail.t = "arr" ->
              JoinWith([i \in 1..Len(data.detail.v) |-> FieldError(data.detail.v[i])], "; ")
         [] data.detail.t = "str" -> data.detail.v
         [] OTHER -> "{json}"
  ELSE IF Truthy(data.message) THEN ErrorText(data.message)
  ELSE MsgInvalidFormat

\* A rejection handler without the 401 branch.
ResponseErrorMessageBodyFirst(e) ==
  IF e.code = "ECONNREFUSED" \/ e.message = "Network Error" THEN MsgUnreachable
  ELSE IF e.status = 422 THEN ValidationMessage(e.data)
  ELSE IF e.status = 403
    THEN ErrorText(OrElse(e.data.message, OrElse(e.data.detail, StrVal(MsgPermissionDenied))))
  ELSE IF e.status >= 500
    THEN ErrorText(OrElse(e.data.message, OrElse(e.data.detail, StrVal(MsgServerError))))
  ELSE IF e.status = 404
    THEN ErrorText(OrElse(e.data.message, OrElse(e.data.detail, StrVal(MsgNotFound))))
  ELSE IF e.status = 400
    THEN ErrorText(OrElse(e.data.detail, OrElse(e.data.message, StrVal(MsgBadRequest))))
  ELSE ErrorText(OrElse(e.data.detail, OrElse(e.data.message,
                   OrElse(StrVal(e.message), StrVal(MsgGeneric)))))

\* The response interceptor's rejection handler: the message of the Error it
\* throws for an axios error e = [code, message, status, data], where status 0
\* stands for "no response".
ResponseErrorMessage(e) ==
  IF e.code = "ECONNREFUSED" \/ e.message = "Network Error" THEN MsgUnreachable
  ELSE IF e.status = 422 THEN ValidationMessage(e.data)
  ELSE IF e.status = 401 THEN MsgReauthenticate
  ELSE IF e.status = 403
    THEN ErrorText(OrElse(e.data.message, OrElse(e.data.detail, StrVal(MsgPermissionDenied))))
  ELSE IF e.status >= 500
    THEN ErrorText(OrElse(e.data.message, OrElse(e.data.detail, StrVal(MsgServerError))))
  ELSE IF e.status = 404
    THEN ErrorText(OrElse(e.data.message, OrElse(e.data.detail, StrVal(MsgNotFound))))
  ELSE IF e.status = 400
    THEN ErrorText(OrElse(e.data.detail, OrElse(e.data.message, StrVal(MsgBadRequest))))
  ELSE ErrorText(OrElse(e.data.detail, OrElse(e.data.message,
                   OrElse(StrVal(e.message), StrVal(MsgGeneric)))))

\* What a caller of the API client catches: a plain Error, which has a message
\* and no `response` property.
ThrownError(e) == [message |-> ResponseErrorMessage(e), responseStatus |-> 0]

NoData == [detail |-> AbsentVal, message |-> AbsentVal]
AxiosError(code, message, status, data) ==
  [code |-> code, message |-> message, status |-> status, data |-> data]
NetworkError == AxiosError("ERR_NETWORK", "Network Error", 0, NoData)
TimeoutError == AxiosError("ECONNABORTED", "timeout of 15000ms exceeded", 0, NoData)
HttpError(status, data) ==
  AxiosError("ERR_BAD_RESPONSE", "Request failed with status code", status, data)

(***************************************************************************)
(* Manage Documents page: inputs.                                          *)
(***************************************************************************)
\* GET /documents/{id}/status: a body {available, exists_in_storage,
\* exists_in_db}, or a failure of the request.
StatusBody(a, s, d) ==
  [kind |-> "ok", available |-> a, exists_in_storage |-> s, exists_in_db |-> d]
StatusFailure(e) == [kind |-> "error", error |-> e]

StatusOutcomes ==
  {StatusBody(a, s, d) : a \in BOOLEAN, s \in BOOLEAN, d \in BOOLEAN}
    \cup {StatusFailure(e) : e \in
            {NetworkError,
             HttpError(500, NoData),
             HttpError(404, NoData),
             HttpError(404, [detail |-> StrVal("No such document"), message |-> AbsentVal])}}

\* apiClient.checkDocumentStatus: the body on success, the interceptor's Error
\* on failure.
checkDocumentStatus(o) ==
  IF o.kind = "ok" THEN o ELSE [kind |-> "thrown", err |-> ThrownError(o.error)]

\* message.includes('not found') on the messages the model produces.
IncludesNotFound(m) == m \in {MsgNotFound, "Document not found"}

\* File names are sequences of characters.
LowerChar(c) ==
  CASE c = "P" -> "p" [] c = "D" -> "d" [] c = "F" -> "f" [] c = "M" -> "m"
    [] c = "N" -> "n" [] OTHER -> c
toLowerCase(s) == [i \in 1..Len(s) |-> LowerChar(s[i])]

\* String.prototype.lastIndexOf, 0-based, -1 when the character is absent.
lastIndexOf(s, c) ==
  LET hits == {i \in 1..Len(s) : s[i] = c}
  IN IF hits = {} THEN -1 ELSE (CHOOSE i \in hits : \A j \in hits : j <= i) - 1

\* String.prototype.substring(from): a negative start counts as 0.
substring(s, from) ==
  LET start == IF from < 0 THEN 0 ELSE from
  IN IF start >= Len(s) THEN <<>> ELSE SubSeq(s, start + 1, Len(s))

\* String.prototype.trim and toLowerCase on the category texts of the model.
trim(s) == IF s = " " THEN "" ELSE s
lowerText(s) == IF s = "Other" THEN "other" ELSE s

allowedTypes ==
  {<<".", "p", "d", "f">>, <<".", "d", "o", "c", "x">>, <<".", "t", "x", "t">>, <<".", "m", "d">>}
maxSizeMB == 10
maxSizeBytes == maxSizeMB * 1024 * 1024

NoFile == [name |-> <<>>, size |-> -1]
File(name, size) == [name |-> name, size |-> size]
Pick(file, category, customCategory) ==
  [file |-> file, category |-> category, customCategory |-> customCategory]
NoPick == Pick(NoFile, "", "")

\* What the user may have chosen when the file input changes: the file, and the
\* category and custom-category fields as they stand at that moment.
Picks ==
  { Pick(File(<<"a", ".", "p", "d", "f">>, 5 * 1024 * 1024), "Backend", ""),
    Pick(File(<<"N", ".", "M", "D">>, 10 * 1024 * 1024), "Other", "ML"),
    Pick(File(<<"b", ".", "p", "d", "f">>, 12 * 1024 * 1024), "Backend", ""),
    Pick(File(<<"c", ".", "t", "x", "t">>, 10 * 1024 * 1024 + 1), "Backend", ""),
    Pick(File(<<"x", ".", "e", "x", "e">>, 1), "Backend", ""),
    Pick(File(<<"d", "o", "c", "x">>, 1), "Backend", ""),
    Pick(File(<<"a", ".", "p", "d", "f">>, 5 * 1024 * 1024), "", ""),
    Pick(File(<<"a", ".", "p", "d", "f">>, 5 * 1024 * 1024), "", "ML"),
    Pick(File(<<"a", ".", "p", "d", "f">>, 5 * 1024 * 1024), "Other", " "),
    Pick(File(<<"b", ".", "p", "d", "f">>, 12 * 1024 * 1024), "Other", ""),
    NoPick }

ErrCategory == "Please select a category (or enter a custom category)."
ErrFileType == "File type not allowed. Allowed types: .pdf, .docx, .txt, .md"
ErrFileSize == "File size exceeds maximum allowed size of 10 MB."
ErrUploadFailed == "Failed to upload document."
ErrDeleteFailed == "Failed to delete document."

\* handleFileChange's finalCategory.
finalCategory(p) ==
  IF lowerText(trim(p.category)) = "other" THEN trim(p.customCategory) ELSE trim(p.category)

fileExt(file) == toLowerCase(substring(file.name, lastIndexOf(file.name, ".")))

\* A validation that forgets the size limit.
validationErrorNoSizeLimit(p) ==
  IF finalCategory(p) = "" THEN ErrCategory
  ELSE IF fileExt(p.file) \notin allowedTypes THEN ErrFileType
  ELSE Absent

\* handleFileChange's validation: the error it sets, or Absent when the file
\* goes on to be uploaded.
validationError(p) ==
  IF finalCategory(p) = "" THEN ErrCategory
  ELSE IF fileExt(p.file) \notin allowedTypes THEN ErrFileType
  ELSE IF p.file.size > maxSizeBytes THEN ErrFileSize
  ELSE Absent

\* POST /documents: the created document (its id may be missing), or a failure.
UploadOutcomes(fresh) ==
  {[kind |-> "ok", id |-> i] : i \in fresh \cup {Absent}}
    \cup {[kind |-> "error", error |-> e] : e \in
            {NetworkError}}

\* DELETE /documents/{id}.
DeleteOutcomes ==
  {[kind |-> "ok"]}
    \cup {[kind |-> "error", error |-> e] : e \in {NetworkError}}

\* GET /documents: the documents listed, or a failure.
ListOutcomes(ids) ==
  {[kind |-> "ok", docs |-> S] : S \in SUBSET ids} \cup {[kind |-> "error"]}

(***************************************************************************)
(* Manage Documents page: state.                                           *)
(***************************************************************************)
VARIABLES
  documentStatuses,  \* useState documentStatuses: id -> tag, "untracked" = no key
  documents,         \* useState documents: the ids of the rows shown
  deletingId,        \* useState deletingId
  error,             \* useState error
  uploading,         \* useState uploading
  loading,           \* useState loading
  mounted,           \* the mount effect has run
  upl,               \* the running handleFileChange: pc, pick, id
  upPoll,            \* pollDocumentStatus per id
  del,               \* the Delete onClick flows, each with its pollDeleteStatus
  listFetch,         \* a fetchDocuments call of the mount effect or Load More
  timers,            \* pending 2 s removal timers per id
  known              \* ids the backend has issued

manageVars ==
  <<documentStatuses, documents, deletingId, error, uploading, loading, mounted,
    upl, upPoll, del, listFetch, timers, known>>

\* The Delete onClick invocations of a run of the page.
DelProcs == {1}

\* A poller: where it stands (pc), the loop counter, the status queries it has
\* issued and the interval waits it has finished, how it left (exit: "loop" by a
\* return inside the loop, "final" by the final check finding convergence,
\* "exhausted" otherwise) and what it returned.
IdlePoll == [pc |-> "idle", attempt |-> 0, queries |-> 0, waits |-> 0, exit |-> "none",
             result |-> "none"]
IdleDel == [pc |-> "idle", id |-> Absent, attempt |-> 0, queries |-> 0, waits |-> 0,
            exit |-> "none", result |-> "none"]
IdleUpl == [pc |-> "idle", pick |-> NoPick, id |-> Absent]

InitManage ==
  /\ documentStatuses = [i \in DocIds |-> "untracked"]
  /\ documents = {}
  /\ deletingId = Absent
  /\ error = Absent
  /\ uploading = FALSE
  /\ loading = FALSE
  /\ mounted = FALSE
  /\ upl = IdleUpl
  /\ upPoll = [i \in DocIds |-> IdlePoll]
  /\ del = [p \in DelProcs |-> IdleDel]
  /\ listFetch = [pc |-> "idle", append |-> FALSE]
  /\ timers = [i \in DocIds |-> 0]
  /\ known = PreExisting

(***************************************************************************)
(* The other components' state: the jwt callback, one call through the    *)
(* API client, and the chat page over the store.                           *)
(***************************************************************************)
\* JavaScript's undefined and null where the code tells them apart.
Undefined == "<undefined>"
Null == "<null>"

VARIABLES
  stored,          \* the token of the session cookie (what jwt last returned)
  signedIn,        \* a session exists
  jwt,             \* the running jwt callback: pc, account, user, token
  jwtOutcome,      \* how the last sign-in ended
  verifyRequests,  \* backend verification requests sent since the sign-in began
  calls            \* jwt invocations after the sign-in

authVars == <<stored, signedIn, jwt, jwtOutcome, verifyRequests, calls>>

VARIABLES
  req              \* the call going through the API client

apiVars == <<req>>

VARIABLES
  messages,         \* store: messages
  chat,             \* DashboardPage: route and component state
  sends,            \* the handleSend invocations
  hist,             \* the loadHistory effect's request
  clearChatOnLoad,  \* sessionStorage flag
  currentConversationId,  \* store: currentConversationId
  session,          \* what getSession resolves to in the browser
  sidebar           \* the layout's delete of a conversation

chatVars ==
  <<messages, chat, sends, hist, clearChatOnLoad, currentConversationId,
    session, sidebar>>

VARIABLES
  view,             \* ViewDocumentsPage: which page is mounted and its state
  fetches,          \* the runs of its fetch effect
  removals,         \* its Delete handlers in flight
  catalogue         \* the documents the backend holds

viewVars == <<view, fetches, removals, catalogue>>

nonChatVars == <<manageVars, authVars, apiVars, viewVars>>

nonManageVars == <<authVars, apiVars, chatVars, viewVars>>

(***************************************************************************)
(* Manage Documents page: fetchDocuments and the pollers' decisions.       *)
(***************************************************************************)
\* The exit predicate of pollDocumentStatus.
uploadConverged(r) == r.available /\ r.exists_in_storage /\ r.exists_in_db

\* A delete poller that also waits for the stored file to go.
deleteConvergedBoth(r) == ~r.exists_in_db /\ ~r.exists_in_storage

\* The exit predicate of pollDeleteStatus on a status body.
deleteConverged(r) == ~r.exists_in_db

\* A catch block that takes every failed status query for "deleted".
deletedByAnyError(err) == TRUE

\* pollDeleteStatus's test of a caught error.
deletedByError(err) == err.responseStatus = 404 \/ IncludesNotFound(err.message)

\* fetchDocuments after its GET has settled: the new documents.
fetchedDocuments(o, append) ==
  IF o.kind = "ok" THEN (IF append THEN documents \cup o.docs ELSE o.docs)
  ELSE (IF append THEN documents ELSE {})

\* fetchDocuments after its GET has settled: every fetched document is tagged
\* "uploaded".
fetchedStatuses(o) ==
  IF o.kind = "ok"
  THEN [i \in DocIds |-> IF i \in o.docs THEN "uploaded" ELSE documentStatuses[i]]
  ELSE documentStatuses

\* What pollDocumentStatus returns: nothing, however it leaves.
uploadReturn(exit) == "void"

\* What pollDeleteStatus returns: true when it found the document deleted,
\* false on timeout.
deleteReturn(exit) == IF exit = "exhausted" THEN "false" ELSE "true"

\* A status response that reports convergence in the sense of the design:
\* storage and catalog agree that the document exists; the catalog entry is
\* gone or the query answers 404.
reportsUploaded(o) == o.kind = "ok" /\ o.exists_in_storage /\ o.exists_in_db
reportsDeleted(o) ==
  \/ o.kind = "ok" /\ ~o.exists_in_db
  \/ o.kind = "error" /\ o.error.status = 404

\* A loop that runs one attempt too many.
loopOrFinalOffByOne(attempt) == IF attempt <= MaxAttempts THEN "query" ELSE "final"

\* The first query of a poller is issued as soon as it starts; with a budget of
\* 0 the loop is skipped and the final check is issued.
loopOrFinal(attempt) == IF attempt < MaxAttempts THEN "query" ELSE "final"

(***************************************************************************)
(* Manage Documents page: the mount effect and Load More.                  *)
(***************************************************************************)
\* useEffect on status === "authenticated": fetchDocuments().
Mount ==
  /\ ~mounted
  /\ mounted' = TRUE
  /\ loading' = TRUE
  /\ listFetch' = [pc |-> "inflight", append |-> FALSE]
  /\ UNCHANGED <<documentStatuses, documents, deletingId, error, uploading, upl,
                 upPoll, del, timers, known>>

\* The Load More button: fetchDocuments(true).
LoadMore ==
  /\ mounted /\ ~loading /\ documents # {}
  /\ listFetch.pc = "idle"
  /\ loading' = TRUE
  /\ listFetch' = [pc |-> "inflight", append |-> TRUE]
  /\ UNCHANGED <<documentStatuses, documents, deletingId, error, uploading, mounted,
                 upl, upPoll, del, timers, known>>

\* The GET of that fetchDocuments call settles.
ListResponse(o) ==
  /\ listFetch.pc = "inflight"
  /\ documents' = fetchedDocuments(o, listFetch.append)
  /\ documentStatuses' = fetchedStatuses(o)
  /\ loading' = FALSE
  /\ listFetch' = [pc |-> "idle", append |-> FALSE]
  /\ UNCHANGED <<deletingId, error, uploading, mounted, upl, upPoll, del, timers,
                 known>>

(***************************************************************************)
(* Manage Documents page: handleFileChange and pollDocumentStatus.         *)
(***************************************************************************)
\* onChange of the file input (disabled while uploading).
handleFileChange(p) ==
  /\ mounted /\ ~uploading /\ upl.pc = "idle"
  /\ IF p.file = NoFile
     THEN /\ error' = Absent
          /\ UNCHANGED <<uploading, upl>>
     ELSE IF validationError(p) # Absent
     THEN /\ error' = validationError(p)
          /\ UNCHANGED <<uploading, upl>>
     ELSE /\ error' = Absent
          /\ uploading' = TRUE
          /\ upl' = [pc |-> "upload",
                     pick |-> Pick(p.file, trim(p.category), trim(p.customCategory)),
                     id |-> Absent]
  /\ UNCHANGED <<documentStatuses, documents, deletingId, loading, mounted, upPoll,
                 del, listFetch, timers, known>>

\* apiClient.uploadDocument settles: on success fetchDocuments() is called, on
\* failure the error is shown.
UploadResponse(o) ==
  /\ upl.pc = "upload"
  /\ IF o.kind = "ok"
     THEN /\ upl' = [upl EXCEPT !.pc = "refresh", !.id = o.id]
          /\ loading' = TRUE
          /\ known' = IF o.id = Absent THEN known ELSE known \cup {o.id}
          /\ UNCHANGED <<error, uploading>>
     ELSE /\ error' = (IF ThrownError(o.error).message # "" THEN ThrownError(o.error).message
                       ELSE ErrUploadFailed)
          /\ uploading' = FALSE
          /\ upl' = IdleUpl
          /\ UNCHANGED <<loading, known>>
  /\ UNCHANGED <<documentStatuses, documents, deletingId, mounted, upPoll, del,
                 listFetch, timers>>

\* The refresh after an upload settles; pollDocumentStatus(id) is started (not
\* awaited) and the handler ends.
UploadRefreshResponse(o) ==
  /\ upl.pc = "refresh"
  /\ documents' = fetchedDocuments(o, FALSE)
  /\ loading' = FALSE
  /\ IF upl.id # Absent
     THEN /\ documentStatuses' = [fetchedStatuses(o) EXCEPT ![upl.id] = "uploading"]
          /\ upPoll' = [upPoll EXCEPT ![upl.id] =
                          [IdlePoll EXCEPT !.pc = loopOrFinal(0), !.queries = 1]]
     ELSE /\ documentStatuses' = fetchedStatuses(o)
          /\ UNCHANGED upPoll
  /\ uploading' = FALSE
  /\ upl' = IdleUpl
  /\ UNCHANGED <<deletingId, error, mounted, del, listFetch, timers, known>>

\* A status query of the upload poller's loop settles.
UploadPollResponse(id, o) ==
  /\ upPoll[id].pc = "query"
  /\ LET r == checkDocumentStatus(o)
     IN IF r.kind = "ok" /\ uploadConverged(r)
        THEN /\ documentStatuses' = [documentStatuses EXCEPT ![id] = "uploaded"]
             /\ upPoll' = [upPoll EXCEPT ![id].pc = "done", ![id].exit = "loop",
                                         ![id].result = uploadReturn("loop")]
        ELSE IF r.kind = "ok"
        THEN /\ documentStatuses' = [documentStatuses EXCEPT ![id] = "uploading"]
             /\ upPoll' = [upPoll EXCEPT ![id].pc = "wait"]
        ELSE /\ upPoll' = [upPoll EXCEPT ![id].pc = "wait"]
             /\ UNCHANGED documentStatuses
  /\ UNCHANGED <<documents, deletingId, error, uploading, loading, mounted, upl,
                 del, listFetch, timers, known>>

\* The interval timer of the upload poller fires: next attempt, or the final
\* check when the budget is used up.
UploadPollWake(id) ==
  /\ upPoll[id].pc = "wait"
  /\ upPoll' = [upPoll EXCEPT ![id].attempt = @ + 1,
                              ![id].waits = @ + 1,
                              ![id].queries = @ + 1,
                              ![id].pc = loopOrFinal(upPoll[id].attempt + 1)]
  /\ UNCHANGED <<documentStatuses, documents, deletingId, error, uploading, loading,
                 mounted, upl, del, listFetch, timers, known>>

\* The final check of the upload poller settles.
UploadPollFinal(id, o) ==
  /\ upPoll[id].pc = "final"
  /\ LET r == checkDocumentStatus(o)
         exit == IF r.kind = "ok" /\ uploadConverged(r) THEN "final" ELSE "exhausted"
     IN /\ documentStatuses' =
             [documentStatuses EXCEPT ![id] =
                IF exit = "final" THEN "uploaded" ELSE "uploading"]
        /\ upPoll' = [upPoll EXCEPT ![id].pc = "done", ![id].exit = exit,
                                    ![id].result = uploadReturn(exit)]
  /\ UNCHANGED <<documents, deletingId, error, uploading, loading, mounted, upl,
                 del, listFetch, timers, known>>

(***************************************************************************)
(* Manage Documents page: the Delete button and pollDeleteStatus.          *)
(***************************************************************************)
\* The Delete button's disabled attribute for the row of id.
deleteDisabled(id) == deletingId = id \/ documentStatuses[id] = "deleting"

\* A poller that replaces the status map instead of updating its own entry.
deleteSucceededDropsOthers(p, exit) ==
  /\ documentStatuses' = [i \in DocIds |-> IF i = del[p].id THEN "deleted" ELSE "untracked"]
  /\ timers' = [timers EXCEPT ![del[p].id] = @ + 1]
  /\ del' = [del EXCEPT ![p].pc = "refresh", ![p].exit = exit,
                        ![p].result = deleteReturn(exit)]
  /\ loading' = TRUE

\* pollDeleteStatus found the document deleted: tag it, schedule the removal
\* of the tag, return true; the onClick handler goes on to fetchDocuments().
deleteSucceeded(p, exit) ==
  /\ documentStatuses' = [documentStatuses EXCEPT ![del[p].id] = "deleted"]
  /\ timers' = [timers EXCEPT ![del[p].id] = @ + 1]
  /\ del' = [del EXCEPT ![p].pc = "refresh", ![p].exit = exit,
                        ![p].result = deleteReturn(exit)]
  /\ loading' = TRUE

\* onClick of a row's Delete button; rows are rendered when not loading.
DeleteClick(p, id) ==
  /\ mounted /\ ~loading /\ id \in documents
  /\ ~deleteDisabled(id)
  /\ del[p].pc = "idle" /\ \A q \in DelProcs : q < p => del[q].pc # "idle"
  /\ deletingId' = id
  /\ error' = Absent
  /\ del' = [del EXCEPT ![p].pc = "request", ![p].id = id]
  /\ UNCHANGED <<documentStatuses, documents, uploading, loading, mounted, upl,
                 upPoll, listFetch, timers, known>>

\* apiClient.deleteDocument settles: on success pollDeleteStatus starts, on
\* failure the catch block drops the tag and the handler ends.
DeleteResponse(p, o) ==
  /\ del[p].pc = "request"
  /\ IF o.kind = "ok"
     THEN /\ documentStatuses' = [documentStatuses EXCEPT ![del[p].id] = "deleting"]
          /\ del' = [del EXCEPT ![p].pc = loopOrFinal(0), ![p].queries = 1]
          /\ UNCHANGED <<error, deletingId>>
     ELSE /\ error' = (IF ThrownError(o.error).message # "" THEN ThrownError(o.error).message
                       ELSE ErrDeleteFailed)
          /\ documentStatuses' = [documentStatuses EXCEPT ![del[p].id] = "untracked"]
          /\ deletingId' = Absent
          /\ del' = [del EXCEPT ![p].pc = "done"]
  /\ UNCHANGED <<documents, uploading, loading, mounted, upl, upPoll, listFetch,
                 timers, known>>

\* A status query of the delete poller's loop settles.
DeletePollResponse(p, o) ==
  /\ del[p].pc = "query"
  /\ LET r == checkDocumentStatus(o)
     IN IF (r.kind = "ok" /\ deleteConverged(r)) \/ (r.kind = "thrown" /\ deletedByError(r.err))
        THEN deleteSucceeded(p, "loop")
        ELSE IF r.kind = "ok"
        THEN /\ documentStatuses' = [documentStatuses EXCEPT ![del[p].id] = "deleting"]
             /\ del' = [del EXCEPT ![p].pc = "wait"]
             /\ UNCHANGED <<timers, loading>>
        ELSE /\ del' = [del EXCEPT ![p].pc = "wait"]
             /\ UNCHANGED <<documentStatuses, timers, loading>>
  /\ UNCHANGED <<documents, deletingId, error, uploading, mounted, upl, upPoll,
                 listFetch, known>>

\* The interval timer of the delete poller fires.
DeletePollWake(p) ==
  /\ del[p].pc = "wait"
  /\ del' = [del EXCEPT ![p].attempt = @ + 1,
                        ![p].waits = @ + 1,
                        ![p].queries = @ + 1,
                        ![p].pc = loopOrFinal(del[p].attempt + 1)]
  /\ UNCHANGED <<documentStatuses, documents, deletingId, error, uploading, loading,
                 mounted, upl, upPoll, listFetch, timers, known>>

\* The final check of the delete poller settles; whatever it returns, the
\* onClick handler goes on to fetchDocuments().
DeletePollFinal(p, o) ==
  /\ del[p].pc = "final"
  /\ LET r == checkDocumentStatus(o)
     IN IF (r.kind = "ok" /\ deleteConverged(r)) \/ (r.kind = "thrown" /\ deletedByError(r.err))
        THEN deleteSucceeded(p, "final")
        ELSE /\ documentStatuses' = [documentStatuses EXCEPT ![del[p].id] = "deleting"]
             /\ del' = [del EXCEPT ![p].pc = "refresh", ![p].exit = "exhausted",
                                   ![p].result = deleteReturn("exhausted")]
             /\ loading' = TRUE
             /\ UNCHANGED timers
  /\ UNCHANGED <<documents, deletingId, error, uploading, mounted, upl, upPoll,
                 listFetch, known>>

\* The refresh after the delete poller settles; finally setDeletingId(null).
DeleteRefreshResponse(p, o) ==
  /\ del[p].pc = "refresh"
  /\ documents' = fetchedDocuments(o, FALSE)
  /\ documentStatuses' = fetchedStatuses(o)
  /\ loading' = FALSE
  /\ deletingId' = Absent
  /\ del' = [del EXCEPT ![p].pc = "done"]
  /\ UNCHANGED <<error, uploading, mounted, upl, upPoll, listFetch, timers, known>>

\* A 2 s timer set when an id was tagged "deleted" fires: the tag is removed.
RemoveTracking(id) ==
  /\ timers[id] > 0
  /\ timers' = [timers EXCEPT ![id] = @ - 1]
  /\ documentStatuses' = [documentStatuses EXCEPT ![id] = "untracked"]
  /\ UNCHANGED <<documents, deletingId, error, uploading, loading, mounted, upl,
                 upPoll, del, listFetch, known>>

(***************************************************************************)
(* Backend session bridge: the NextAuth callbacks of auth-config.ts.       *)
(***************************************************************************)
\* What Google hands to the callbacks: the account with its id_token and
\* access_token, and the user with id and email.
NoAccount == [present |-> FALSE, id_token |-> Undefined, access_token |-> Undefined]
Account(idToken, accessToken) ==
  [present |-> TRUE, id_token |-> idToken, access_token |-> accessToken]
NoUser == [present |-> FALSE, id |-> Undefined, email |-> Undefined]
User(id, email) == [present |-> TRUE, id |-> id, email |-> email]

Accounts ==
  { Account("google-id-token", "google-access-token"),
    Account(Undefined, "google-access-token"),
    Account(Undefined, Undefined) }
Users ==
  { User("g-amy", "amy@cloudusinfotech.com"),
    User(Undefined, "amy@cloudusinfotech.com"),
    User("g-ann", "ann@cloudusinfotech.com"),
    User("g-bob", "bob@gmail.com"),
    User("g-nil", Undefined) }

\* The part of an address from its "@" on.
domainOf(email) ==
  CASE email = "amy@cloudusinfotech.com" -> "@cloudusinfotech.com"
    [] email = "ann@cloudusinfotech.com" -> "@cloudusinfotech.com"
    [] email = "bob@gmail.com" -> "@gmail.com"
    [] OTHER -> ""
allowedDomain == "@cloudusinfotech.com"

\* The signIn callback: !user.email?.endsWith(allowedDomain) rejects.
signIn(user) == user.email # Undefined /\ domainOf(user.email) = allowedDomain

\* a || b on strings that may be undefined.
OrString(a, b) == IF a \notin {Undefined, Null, ""} THEN a ELSE b

\* The token as far as the callbacks use it.  NextAuth starts a sign-in from
\* a token that has the user's email and none of the bridge's fields.
Token(backendToken, userId, isAdmin, email, backendError) ==
  [backendToken |-> backendToken, userId |-> userId, isAdmin |-> isAdmin,
   email |-> email, backendError |-> backendError]
NoToken == Token(Undefined, Undefined, Undefined, Undefined, Undefined)
DefaultToken(user) == Token(Undefined, Undefined, Undefined, user.email, Undefined)

\* Answers of POST /api/v1/auth/verify and /verify-email: a 2xx with data
\* {token, user: {id, is_admin}}, or an axios error.
NoBackendUser == [present |-> FALSE, id |-> Undefined, is_admin |-> FALSE]
BackendUser(id, isAdmin) == [present |-> TRUE, id |-> id, is_admin |-> isAdmin]
VerifyOk(token, user) == [kind |-> "ok", token |-> token, user |-> user]
VerifyFailed(e) == [kind |-> "error", error |-> e]
Detail(text) == [detail |-> StrVal(text), message |-> AbsentVal]
AuthTimeoutError == AxiosError("ECONNABORTED", "timeout of 20000ms exceeded", 0, NoData)

DetailDomain == "Email domain not allowed"
DetailDomainLong == "Email domain not allowed. Only company accounts may sign in."
DetailDisabled == "Account disabled"
DetailInvalid == "Invalid Google token"

VerifyOutcomes ==
  { VerifyOk("backend-jwt", BackendUser("u-1", TRUE)),
    VerifyOk("backend-jwt", BackendUser(Undefined, FALSE)),
    VerifyOk("backend-jwt", BackendUser("u-2", FALSE)),
    VerifyOk("backend-jwt", NoBackendUser),
    VerifyOk(Undefined, BackendUser("u-1", TRUE)),
    VerifyOk("", NoBackendUser),
    VerifyFailed(HttpError(403, Detail(DetailDomain))),
    VerifyFailed(HttpError(403, Detail(DetailDomainLong))),
    VerifyFailed(HttpError(403, Detail(DetailDisabled))),
    VerifyFailed(HttpError(403, NoData)),
    VerifyFailed(HttpError(401, Detail(DetailInvalid))),
    VerifyFailed(HttpError(500, Detail(""))),
    VerifyFailed(HttpError(503, NoData)),
    VerifyFailed(NetworkError),
    VerifyFailed(AuthTimeoutError) }

\* detail?.includes("Email domain not allowed") on the details of the model.
IncludesDomainNotAllowed(detail) ==
  detail.t = "str" /\ detail.v \in {DetailDomain, DetailDomainLong}

\* An error caught by the callback: an axios error, or the Error the callback
\* throws itself for a 2xx without token (it has no response).
MissingToken == AxiosError("", "Backend response missing token", 0, NoData)

\* A catch that never treats a failure as a domain rejection.
domainRejectedNever(e) == FALSE

\* A catch that takes every 403 for a domain rejection.
domainRejectedAny403(e) == e.status = 403

\* The catch blocks' test for a domain rejection.
domainRejected(e) == e.status = 403 /\ IncludesDomainNotAllowed(e.data.detail)

\* error.response?.data?.detail || error.message || "Backend unavailable"
backendErrorOf(e) ==
  ErrorText(OrElse(e.data.detail, OrElse(StrVal(e.message), StrVal("Backend unavailable"))))

\* token.backendToken ?? null
OrNull(x) == IF x \in {Undefined, Null} THEN Null ELSE x

\* The token after a verification succeeded; fallbackId is user.email for
\* /verify and user.id || user.email for /verify-email.
verifiedToken(token, o, user, fallbackId) ==
  Token(o.token,
        OrString(IF o.user.present THEN o.user.id ELSE Undefined, fallbackId),
        IF o.user.present /\ o.user.is_admin THEN "true" ELSE "false",
        OrString(user.email, Undefined),
        token.backendError)

\* The token after a verification failed otherwise than by domain rejection.
degradedToken(token, e, user) ==
  Token(OrNull(token.backendToken),
        OrString(user.id, OrString(user.email, Undefined)),
        "false",
        OrString(user.email, Undefined),
        backendErrorOf(e))

\* The token when there is neither an id token nor an email.
unverifiableToken ==
  Token(Null, Undefined, "false", Undefined, "No ID token or email available from Google OAuth")

\* A jwt callback that exchanges on every invocation.
isInitialSignInAlways(account, user) == TRUE

\* if (account && user)
isInitialSignIn(account, user) == account.present /\ user.present

IdleJwt == [pc |-> "idle", account |-> NoAccount, user |-> NoUser, token |-> NoToken]
NoOutcome == [kind |-> "none", message |-> ""]

InitAuth ==
  /\ stored = NoToken
  /\ signedIn = FALSE
  /\ jwt = IdleJwt
  /\ jwtOutcome = NoOutcome
  /\ verifyRequests = 0
  /\ calls = 0

\* The callback returns: NextAuth writes the token into the session cookie.
jwtReturn(token) ==
  /\ stored' = token
  /\ signedIn' = TRUE
  /\ jwtOutcome' = [kind |-> "returned", message |-> ""]
  /\ jwt' = IdleJwt

\* The callback throws: the sign-in fails, no cookie is written.
jwtThrow(message) ==
  /\ jwtOutcome' = [kind |-> "threw", message |-> message]
  /\ jwt' = IdleJwt
  /\ UNCHANGED <<stored, signedIn>>

\* A fallback that posts to /verify-email whether or not the user has an email.
fallbackVerificationAlwaysPosts(token, account, user, sent) ==
  /\ jwt' = [pc |-> "verifyEmail", account |-> account, user |-> user, token |-> token]
  /\ verifyRequests' = sent + 1
  /\ jwtOutcome' = NoOutcome
  /\ UNCHANGED <<stored, signedIn>>

\* The branch without an id token: /verify-email when the user has an email.
\* sent is the number of verification requests of this sign-in so far.
fallbackVerification(token, account, user, sent) ==
  IF user.email \notin {Undefined, Null, ""}
  THEN /\ jwt' = [pc |-> "verifyEmail", account |-> account, user |-> user, token |-> token]
       /\ verifyRequests' = sent + 1
       /\ jwtOutcome' = NoOutcome
       /\ UNCHANGED <<stored, signedIn>>
  ELSE /\ jwtReturn(unverifiableToken)
       /\ verifyRequests' = sent

\* The jwt callback up to its first await, or to its return.
jwtCallback(token, account, user, sent) ==
  IF isInitialSignIn(account, user)
  THEN IF account.id_token = Undefined /\ account.access_token # Undefined
       THEN /\ jwt' = [pc |-> "userinfo", account |-> account, user |-> user, token |-> token]
            /\ verifyRequests' = sent
            /\ jwtOutcome' = NoOutcome
       /\ UNCHANGED <<stored, signedIn>>
       ELSE IF account.id_token # Undefined
       THEN /\ jwt' = [pc |-> "verify", account |-> account, user |-> user, token |-> token]
            /\ verifyRequests' = sent + 1
            /\ jwtOutcome' = NoOutcome
       /\ UNCHANGED <<stored, signedIn>>
       ELSE fallbackVerification(token, account, user, sent)
  ELSE /\ jwtReturn(token)
       /\ verifyRequests' = sent

\* A sign-in with Google: the signIn callback, then the jwt callback with the
\* account, the user and a fresh token.
SignIn(account, user) ==
  /\ jwt.pc = "idle"
  /\ ~signedIn
  /\ calls' = 0
  /\ IF signIn(user)
     THEN jwtCallback(DefaultToken(user), account, user, 0)
     ELSE /\ jwtOutcome' = [kind |-> "denied", message |-> "AccessDenied"]
          /\ verifyRequests' = 0
          /\ UNCHANGED <<stored, signedIn, jwt>>
  /\ UNCHANGED <<manageVars, apiVars, chatVars, viewVars>>

\* Google's userinfo answers (or fails): it yields no id token either way.
UserinfoResponse(ok) ==
  /\ jwt.pc = "userinfo"
  /\ fallbackVerification(jwt.token, jwt.account, jwt.user, verifyRequests)
  /\ UNCHANGED <<calls, manageVars, apiVars, chatVars, viewVars>>

\* The try/catch around a verification request, given the fallback user id.
verificationSettled(o, fallbackId) ==
  LET e == IF o.kind = "error" THEN o.error ELSE MissingToken
  IN IF o.kind = "ok" /\ o.token \notin {Undefined, Null, ""}
     THEN jwtReturn(verifiedToken(jwt.token, o, jwt.user, fallbackId))
     ELSE IF domainRejected(e)
     THEN jwtThrow("Email domain not allowed")
     ELSE jwtReturn(degradedToken(jwt.token, e, jwt.user))

\* POST /api/v1/auth/verify answers.
VerifyResponse(o) ==
  /\ jwt.pc = "verify"
  /\ verificationSettled(o, jwt.user.email)
  /\ UNCHANGED <<verifyRequests, calls, manageVars, apiVars, chatVars, viewVars>>

\* POST /api/v1/auth/verify-email answers.
VerifyEmailResponse(o) ==
  /\ jwt.pc = "verifyEmail"
  /\ verificationSettled(o, OrString(jwt.user.id, jwt.user.email))
  /\ UNCHANGED <<verifyRequests, calls, manageVars, apiVars, chatVars, viewVars>>

\* A later request of the session: the jwt callback without account and user.
SessionRequest ==
  /\ jwt.pc = "idle"
  /\ signedIn
  /\ calls < MaxCalls
  /\ calls' = calls + 1
  /\ jwtCallback(stored, NoAccount, NoUser, verifyRequests)
  /\ UNCHANGED <<manageVars, apiVars, chatVars, viewVars>>

\* Sign-out: the session cookie is dropped.
SignOut ==
  /\ jwt.pc = "idle"
  /\ signedIn
  /\ signedIn' = FALSE
  /\ stored' = NoToken
  /\ jwtOutcome' = NoOutcome
  /\ verifyRequests' = 0
  /\ calls' = 0
  /\ UNCHANGED <<jwt, manageVars, apiVars, chatVars, viewVars>>

NextAuth ==
  \/ \E account \in Accounts, user \in Users : SignIn(account, user)
  \/ \E ok \in BOOLEAN : UserinfoResponse(ok)
  \/ \E o \in VerifyOutcomes : VerifyResponse(o)
  \/ \E o \in VerifyOutcomes : VerifyEmailResponse(o)
  \/ SessionRequest
  \/ SignOut

\* The jwt callback invoked for a sign-in with whatever account and user it is
\* handed, the signIn callback's answer left aside.
JwtSignIn(account, user) ==
  /\ jwt.pc = "idle"
  /\ ~signedIn
  /\ calls' = 0
  /\ jwtCallback(DefaultToken(user), account, user, 0)
  /\ UNCHANGED <<manageVars, apiVars, chatVars, viewVars>>

NextJwt ==
  \/ \E account \in Accounts, user \in Users : JwtSignIn(account, user)
  \/ \E ok \in BOOLEAN : UserinfoResponse(ok)
  \/ \E o \in VerifyOutcomes : VerifyResponse(o)
  \/ \E o \in VerifyOutcomes : VerifyEmailResponse(o)
  \/ SessionRequest
  \/ SignOut

(***************************************************************************)
(* API client: one call through the axios instance of api-client.ts.       *)
(***************************************************************************)
\* config.method as axios hands it to the request interceptor.
Methods == {"get", "head", "post", "delete"}

\* String.prototype.toUpperCase on method names.
toUpperCase(m) ==
  CASE m = "get" -> "GET"
    [] m = "head" -> "HEAD"
    [] m = "post" -> "POST"
    [] m = "delete" -> "DELETE"
    [] OTHER -> m

\* config.data as the caller supplies it.
Payloads ==
  { AbsentVal, NullVal, StrVal(""), NumVal(0), BoolVal(FALSE),
    StrVal("text"), NumVal(7), BoolVal(TRUE), ObjVal, FormDataVal }

\* What getSession resolves to: no session, a session whose backendToken is
\* undefined, "", blank or a token; or a failure of getSession.
NoSession == [kind |-> "none", backendToken |-> AbsentVal]
SessionWith(backendToken) == [kind |-> "session", backendToken |-> backendToken]
SessionFailure == [kind |-> "error", backendToken |-> AbsentVal]
Sessions ==
  { NoSession, SessionFailure, SessionWith(AbsentVal), SessionWith(StrVal("")),
    SessionWith(StrVal(" ")), SessionWith(StrVal("backend-jwt")) }

\* The backend's answer to the request, as axios sees it.
Body(detail, message) == [detail |-> detail, message |-> message]
FieldErrors == ArrVal(<<[loc |-> <<"body", "file">>, msg |-> "field required"]>>)
ResponseOutcomes ==
  { [kind |-> "ok"] } \cup
  { [kind |-> "error", error |-> e] : e \in
      { NetworkError, TimeoutError,
        HttpError(401, NoData),
        HttpError(401, Body(StrVal("Token has expired"), AbsentVal)),
        HttpError(401, Body(StrVal("Could not validate credentials"), StrVal("Unauthorized"))),
        HttpError(401, Body(FieldErrors, AbsentVal)),
        HttpError(403, Body(StrVal("Admins only"), AbsentVal)),
        HttpError(403, Body(StrVal("Admins only"), StrVal("Forbidden"))),
        HttpError(404, NoData),
        HttpError(422, Body(FieldErrors, AbsentVal)),
        HttpError(400, Body(AbsentVal, StrVal("Bad scope"))),
        HttpError(500, NoData) } }

Config(method, data, contentType, authorization) ==
  [method |-> method, data |-> data, contentType |-> contentType,
   authorization |-> authorization]
IdleReq ==
  [pc |-> "idle", config |-> Config("get", AbsentVal, Absent, Absent), sent |-> 0,
   response |-> [kind |-> "none"], result |-> [kind |-> "none", message |-> ""]]

InitApi == req = IdleReq

\* An interceptor that takes any non-empty string for a credential.
authorizationForUntrimmed(s) ==
  IF s.kind = "session" /\ Truthy(s.backendToken) /\ s.backendToken.t = "str"
  THEN "Bearer " \o s.backendToken.v
  ELSE Absent

\* The Authorization header the request interceptor sets for a session.
authorizationFor(s) ==
  IF /\ s.kind = "session"
     /\ Truthy(s.backendToken)
     /\ s.backendToken.t = "str"
     /\ trim(s.backendToken.v) # ""
  THEN "Bearer " \o s.backendToken.v
  ELSE Absent

\* The interceptor's last step: GET and HEAD requests lose a truthy payload.
withoutBodyOnGetHead(config) ==
  IF toUpperCase(config.method) \in {"GET", "HEAD"} /\ Truthy(config.data)
  THEN [config EXCEPT !.data = AbsentVal]
  ELSE config

\* The request interceptor on a config, given what getSession resolved to.
requestInterceptor(config, s) ==
  LET authorized == [config EXCEPT !.authorization = authorizationFor(s)]
      typed == IF authorized.data.t = "formdata"
               THEN [authorized EXCEPT !.contentType = Absent]
               ELSE authorized
  IN withoutBodyOnGetHead(typed)

\* A caller issues a request: the instance's default Content-Type, then the
\* request interceptor up to getSession.
Request(method, data) ==
  /\ req.pc \in {"idle", "settled"}
  /\ req' = [IdleReq EXCEPT !.pc = "session",
                            !.config = Config(method, data, "application/json", Absent)]
  /\ UNCHANGED <<manageVars, authVars, chatVars, viewVars>>

\* getSession settles: the rest of the request interceptor, and the request
\* goes to the transport.
SessionResolved(s) ==
  /\ req.pc = "session"
  /\ req' = [req EXCEPT !.pc = "sent",
                        !.config = requestInterceptor(req.config, s),
                        !.sent = @ + 1]
  /\ UNCHANGED <<manageVars, authVars, chatVars, viewVars>>

\* The answer arrives: the response interceptor resolves with the response or
\* rejects with an Error carrying its message.
ResponseArrives(o) ==
  /\ req.pc = "sent"
  /\ req' = [req EXCEPT !.pc = "settled",
                        !.response = o,
                        !.result = IF o.kind = "ok"
                                   THEN [kind |-> "resolved", message |-> ""]
                                   ELSE [kind |-> "rejected",
                                         message |-> ThrownError(o.error).message]]
  /\ UNCHANGED <<manageVars, authVars, chatVars, viewVars>>

NextApi ==
  \/ \E method \in Methods, data \in Payloads : Request(method, data)
  \/ \E s \in Sessions : SessionResolved(s)
  \/ \E o \in ResponseOutcomes : ResponseArrives(o)

(***************************************************************************)
(* Chat: DashboardPage.handleSend over the store's message list, with the *)
(* navigation that clears or replaces the list.                            *)
(***************************************************************************)
Sends == 1..MaxSends

\* The id the backend gives the conversation that send n starts.
NewConversation(n) == "c" \o ToString(n)

\* A message of the transcript: its role, what appended it (the optimistic
\* "user" append, a "reply", an "error" notice, or loaded "history"), the
\* send it belongs to (0 for history), and where its id comes from: the
\* client's Date.now() or the backend.
UserMessage(n) == [role |-> "USER", kind |-> "user", of |-> n, id |-> "client"]
AssistantMessage(n) ==
  [role |-> "ASSISTANT", kind |-> "reply", of |-> n, id |-> "server"]
ErrorMessage(n) ==
  [role |-> "ASSISTANT", kind |-> "error", of |-> n, id |-> "client"]
History ==
  <<[role |-> "USER", kind |-> "history", of |-> 0, id |-> "server"],
    [role |-> "ASSISTANT", kind |-> "history", of |-> 0, id |-> "server"]>>

\* What the input box may hold.
Inputs == {"", " ", "hello"}

\* POST /api/v1/chat through the API client: a reply, or the Error of the
\* response interceptor for the status the backend answered (0: no answer).
ChatOutcomes ==
  { [kind |-> "ok", status |-> 200] } \cup
  { [kind |-> "thrown", status |-> e.status, err |-> ThrownError(e)] : e \in
      { NetworkError, HttpError(401, NoData), HttpError(500, NoData) } }

MsgSendFailed ==
  "Failed to send message. Please check if the backend is running and try again."
MsgRefreshSession ==
  "Your session needs to be refreshed. Click 'Refresh Session' below or log out and log back in to connect to the backend."

\* includes("authentication") || includes("token") || includes("401") ||
\* includes("expired") || includes("invalid") on the messages of the model.
MentionsAuthentication(m) == m = MsgReauthenticate

\* The text of the error banner and of the error notice for a caught error.
sendErrorMessage(err) ==
  LET errorMessage == IF err.message # "" THEN err.message ELSE MsgSendFailed
  IN IF MentionsAuthentication(errorMessage) THEN MsgRefreshSession ELSE errorMessage

\* A store whose addMessage puts the message in front.
addMessageInFront(list, message) == <<message>> \o list

\* store.addMessage
addMessage(list, message) == Append(list, message)

\* store.setMessages, store.clearMessages and store.resetConversation, as far as
\* the message list goes.
setMessages(list, newMessages) == newMessages
clearMessages(list) == <<>>
resetConversation(list) == <<>>

\* The session the browser holds for getSession.
SignedInSession == SessionWith(StrVal("backend-jwt"))

\* The page's component state; page is "dashboard" while DashboardPage is
\* mounted, "login" after a sign-out.
FreshChat(page, sessionId, readOnly) ==
  [page |-> page, sessionId |-> sessionId, readOnly |-> readOnly, input |-> "",
   loading |-> FALSE, error |-> Absent, conversationId |-> Absent]
\* A handleSend invocation: stale once the component that ran it is unmounted;
\* the conversation_id and the Authorization header its request carries, and
\* the status the backend answered.
IdleSend ==
  [pc |-> "none", stale |-> FALSE, conversationId |-> Absent,
   authorization |-> Absent, status |-> 0]
\* The loadHistory request of the page and the sidebar's delete of the active
\* conversation.
IdleHist == [pc |-> "idle", stale |-> FALSE]
IdleSidebar == [pc |-> "idle", onDashboard |-> FALSE]

InitChat ==
  /\ messages = <<>>
  /\ chat = FreshChat("dashboard", Absent, FALSE)
  /\ sends = [n \in Sends |-> IdleSend]
  /\ hist = IdleHist
  /\ clearChatOnLoad = FALSE
  /\ currentConversationId = Absent
  /\ session = SignedInSession
  /\ sidebar = IdleSidebar

\* The two conversation effects of DashboardPage for a render with these
\* values: restore the store's id when the page has none, forget the page's
\* id when the store has none. What conversationId is afterwards.
conversationEffects(sessionId, conversationId, current) ==
  IF sessionId = Absent /\ conversationId = Absent /\ current # Absent
  THEN current
  ELSE IF sessionId = Absent /\ current = Absent /\ conversationId # Absent
       THEN Absent
       ELSE conversationId

\* The page after the renders that a change of the store or of its state
\* causes.
rendered(c, current) ==
  IF c.page = "dashboard"
  THEN [c EXCEPT !.conversationId =
          conversationEffects(c.sessionId, c.conversationId, current)]
  ELSE c

\* The loadHistory effect up to its first await, for a route without
\* sessionId: setCurrentConversation(null).
loadHistoryStore(sessionId, current) ==
  IF sessionId = Absent THEN Absent ELSE current

\* The effects of the commit in which sessionIdFromUrl is new (a mount, or a
\* navigation on the mounted page), run with the values of that render:
\* loadHistory's setConversationId(null), then the restore effect's
\* setConversationId(currentConversationId).
routeEffects(sessionId, conversationId, current) ==
  IF sessionId = Absent
  THEN IF conversationId = Absent /\ current # Absent THEN current ELSE Absent
  ELSE conversationId

\* The input box changes (it is disabled while loading or read-only).
Type(text) ==
  /\ chat.page = "dashboard"
  /\ ~chat.loading /\ ~chat.readOnly
  /\ chat' = [chat EXCEPT !.input = text]
  /\ UNCHANGED <<messages, sends, hist, clearChatOnLoad, currentConversationId,
                 session, sidebar, nonChatVars>>

\* handleSend accepts the input.
sendAccepted == ~chat.readOnly /\ trim(chat.input) # "" /\ ~chat.loading

\* handleSend up to the request: the optimistic append, then sendChatMessage
\* with the page's conversationId, through the request interceptor.
handleSend(n) ==
  /\ chat.page = "dashboard"
  /\ sends[n].pc = "none"
  /\ \A k \in Sends : k < n => sends[k].pc # "none"
  /\ IF sendAccepted
     THEN /\ chat' = [chat EXCEPT !.input = "", !.loading = TRUE, !.error = Absent]
          /\ messages' = addMessage(messages, UserMessage(n))
          /\ sends' = [sends EXCEPT ![n] =
                         [pc |-> "inflight", stale |-> FALSE,
                          conversationId |-> chat.conversationId,
                          authorization |-> authorizationFor(session),
                          status |-> 0]]
     ELSE UNCHANGED <<chat, messages, sends>>
  /\ UNCHANGED <<hist, clearChatOnLoad, currentConversationId, session, sidebar,
                 nonChatVars>>

\* response.conversation_id: the conversation the request named, or a new one.
responseConversation(n) ==
  IF sends[n].conversationId = Absent THEN NewConversation(n)
  ELSE sends[n].conversationId

\* sendChatMessage settles: the reply or the error notice is appended; the
\* component's conversationId, loading and error change if it is still
\* mounted. After the first reply of a chat the handler goes on to refresh
\* the conversation list.
SendResponse(n, o) ==
  /\ sends[n].pc = "inflight"
  /\ IF o.kind = "ok"
     THEN /\ messages' = addMessage(messages, AssistantMessage(n))
          /\ sends' = [sends EXCEPT
               ![n].pc = IF sends[n].conversationId = Absent THEN "refresh" ELSE "done",
               ![n].status = o.status]
          /\ chat' =
               IF sends[n].stale THEN chat
               ELSE rendered([chat EXCEPT
                      !.conversationId = responseConversation(n),
                      !.loading = (sends[n].conversationId = Absent)],
                    currentConversationId)
     ELSE /\ messages' = addMessage(messages, ErrorMessage(n))
          /\ sends' = [sends EXCEPT ![n].pc = "done", ![n].status = o.status]
          /\ chat' = IF sends[n].stale THEN chat
                     ELSE [chat EXCEPT !.loading = FALSE,
                                       !.error = sendErrorMessage(o.err)]
  /\ UNCHANGED <<hist, clearChatOnLoad, currentConversationId, session, sidebar,
                 nonChatVars>>

\* getConversations after the first reply settles: setCurrentConversation on
\* success, console.error otherwise; then the finally block.
RefreshResponse(n, ok) ==
  /\ sends[n].pc = "refresh"
  /\ sends' = [sends EXCEPT ![n].pc = "done"]
  /\ currentConversationId' =
       IF ok THEN responseConversation(n) ELSE currentConversationId
  /\ chat' = rendered(IF sends[n].stale THEN chat
                      ELSE [chat EXCEPT !.loading = FALSE],
                      currentConversationId')
  /\ UNCHANGED <<messages, hist, clearChatOnLoad, session, sidebar, nonChatVars>>

\* Requests whose component is unmounted by a navigation.
unmounted(s) == [n \in Sends |-> [s[n] EXCEPT !.stale =
                   s[n].stale \/ s[n].pc \in {"inflight", "refresh"}]]

\* DashboardPage mounts on a route: fresh component state, the effect that
\* clears the transcript when sessionStorage says so, and the conversation
\* effects.
mountDashboard(list, flag, sessionId, readOnly, current) ==
  /\ currentConversationId' = loadHistoryStore(sessionId, current)
  /\ chat' = rendered([FreshChat("dashboard", sessionId, readOnly) EXCEPT
                         !.conversationId = routeEffects(sessionId, Absent, current)],
                      currentConversationId')
  /\ messages' = IF flag THEN <<>> ELSE list
  /\ clearChatOnLoad' = FALSE
  /\ sends' = unmounted(sends)

\* router.push or a Link to a route of the mounted DashboardPage: the effects
\* run again if sessionIdFromUrl is new.
navigateDashboard(sessionId, readOnly, current) ==
  IF sessionId = chat.sessionId
  THEN /\ chat' = rendered([chat EXCEPT !.readOnly = readOnly], current)
       /\ currentConversationId' = current
  ELSE /\ currentConversationId' = loadHistoryStore(sessionId, current)
       /\ chat' = rendered([chat EXCEPT
                     !.sessionId = sessionId, !.readOnly = readOnly,
                     !.conversationId =
                        routeEffects(sessionId, chat.conversationId, current)],
                   currentConversationId')

\* The user goes to another page of the app.
Leave ==
  /\ chat.page = "dashboard"
  /\ chat' = FreshChat("other", Absent, FALSE)
  /\ sends' = unmounted(sends)
  /\ hist' = [hist EXCEPT !.stale = (hist.pc = "inflight")]
  /\ UNCHANGED <<messages, clearChatOnLoad, currentConversationId, session,
                 sidebar, nonChatVars>>

\* The user comes back to /dashboard by the navigation link.
Return ==
  /\ chat.page = "other"
  /\ mountDashboard(messages, clearChatOnLoad, Absent, FALSE, currentConversationId)
  /\ UNCHANGED <<hist, session, sidebar, nonChatVars>>

\* The layout's handleNewChat: clearMessages, the sessionStorage flag, and
\* router.push("/dashboard").
handleNewChat ==
  /\ chat.page # "login"
  /\ IF chat.page = "dashboard"
     THEN /\ messages' = <<>>
          /\ clearChatOnLoad' = TRUE
          /\ navigateDashboard(Absent, FALSE, currentConversationId)
          /\ UNCHANGED sends
     ELSE mountDashboard(<<>>, TRUE, Absent, FALSE, currentConversationId)
  /\ UNCHANGED <<hist, session, sidebar, nonChatVars>>

\* The user opens an old chat from the sidebar: setCurrentConversation(conv.id),
\* /dashboard?sessionId=..&readOnly=1 and, on a new sessionId, the loadHistory
\* effect's request.
OpenHistory ==
  /\ chat.page # "login"
  /\ hist.pc = "idle"
  /\ IF chat.page = "dashboard"
     THEN /\ navigateDashboard("s1", TRUE, "s1")
          /\ hist' = IF chat.sessionId = "s1" THEN hist
                     ELSE [pc |-> "inflight", stale |-> FALSE]
          /\ UNCHANGED <<messages, sends, clearChatOnLoad>>
     ELSE /\ mountDashboard(messages, clearChatOnLoad, "s1", TRUE, "s1")
          /\ hist' = [pc |-> "inflight", stale |-> FALSE]
  /\ UNCHANGED <<session, sidebar, nonChatVars>>

\* getConversationMessages settles: setCurrentConversation, setConversationId
\* and setMessages(history), or nothing.
HistoryResponse(ok) ==
  /\ hist.pc = "inflight"
  /\ hist' = IdleHist
  /\ messages' = IF ok THEN setMessages(messages, History) ELSE messages
  /\ currentConversationId' = IF ok THEN "s1" ELSE currentConversationId
  /\ chat' = rendered(IF ok /\ ~hist.stale
                      THEN [chat EXCEPT !.conversationId = "s1"] ELSE chat,
                      currentConversationId')
  /\ UNCHANGED <<sends, clearChatOnLoad, session, sidebar, nonChatVars>>

\* The sidebar's Delete on the active conversation: deleteConversation and
\* getConversations are awaited with the render's currentConversationId and
\* pathname.
DeleteConversation ==
  /\ chat.page # "login"
  /\ sidebar.pc = "idle"
  /\ currentConversationId # Absent
  /\ sidebar' = [pc |-> "deleting", onDashboard |-> (chat.page = "dashboard")]
  /\ UNCHANGED <<messages, chat, sends, hist, clearChatOnLoad,
                 currentConversationId, session, nonChatVars>>

\* The two requests settle: on success resetConversation, clearMessages, the
\* sessionStorage flag and, from the chat route, router.push("/dashboard").
DeleteConversationResponse(ok) ==
  /\ sidebar.pc = "deleting"
  /\ sidebar' = IdleSidebar
  /\ IF ~ok
     THEN UNCHANGED <<messages, chat, sends, clearChatOnLoad, currentConversationId>>
     ELSE IF sidebar.onDashboard /\ chat.page = "other"
          THEN mountDashboard(<<>>, TRUE, Absent, FALSE, Absent)
          ELSE /\ messages' = clearMessages(resetConversation(messages))
               /\ clearChatOnLoad' = TRUE
               /\ IF sidebar.onDashboard /\ chat.page = "dashboard"
                  THEN navigateDashboard(Absent, FALSE, Absent)
                  ELSE /\ currentConversationId' = Absent
                       /\ chat' = rendered(chat, Absent)
               /\ UNCHANGED sends
  /\ UNCHANGED <<hist, session, nonChatVars>>

\* signOut({ callbackUrl: "/login" }): the session is dropped and the browser
\* loads the login page, which ends the scripts of the app and empties the
\* store.
signedOut ==
  /\ session' = NoSession
  /\ chat' = FreshChat("login", Absent, FALSE)
  /\ messages' = <<>>
  /\ currentConversationId' = Absent
  /\ clearChatOnLoad' = clearChatOnLoad
  /\ sends' = [n \in Sends |->
                 IF sends[n].pc \in {"inflight", "refresh"}
                 THEN [sends[n] EXCEPT !.pc = "aborted", !.stale = TRUE]
                 ELSE sends[n]]
  /\ hist' = IdleHist
  /\ sidebar' = IdleSidebar
  /\ UNCHANGED nonChatVars

\* The Refresh Session button of the error banner.
RefreshSession ==
  /\ chat.page = "dashboard"
  /\ chat.error = MsgRefreshSession
  /\ signedOut

\* The layout's Logout button.
handleLogout ==
  /\ chat.page # "login"
  /\ signedOut

NextChat ==
  \/ \E text \in Inputs : Type(text)
  \/ \E n \in Sends : handleSend(n)
  \/ \E n \in Sends, o \in ChatOutcomes : SendResponse(n, o)
  \/ \E n \in Sends, ok \in BOOLEAN : RefreshResponse(n, ok)
  \/ Leave
  \/ Return
  \/ handleNewChat
  \/ OpenHistory
  \/ \E ok \in BOOLEAN : HistoryResponse(ok)
  \/ DeleteConversation
  \/ \E ok \in BOOLEAN : DeleteConversationResponse(ok)
  \/ RefreshSession
  \/ handleLogout

(***************************************************************************)
(* The store's message list under its own operations, called in any order. *)
(***************************************************************************)
StoreMessages == {UserMessage(1), AssistantMessage(1), ErrorMessage(1)}
StoreLists == {<<>>, History, <<UserMessage(1)>>}

storeFrame ==
  <<chat, sends, hist, clearChatOnLoad, session, sidebar, nonChatVars>>

StoreAddMessage(m) ==
  /\ Len(messages) < MaxMessages
  /\ messages' = addMessage(messages, m)
  /\ UNCHANGED <<storeFrame, currentConversationId>>

StoreSetMessages(list) ==
  /\ messages' = setMessages(messages, list)
  /\ UNCHANGED <<storeFrame, currentConversationId>>

StoreClearMessages ==
  /\ messages' = clearMessages(messages)
  /\ UNCHANGED <<storeFrame, currentConversationId>>

StoreResetConversation ==
  /\ messages' = resetConversation(messages)
  /\ currentConversationId' = Absent
  /\ UNCHANGED storeFrame

NextStore ==
  \/ \E m \in StoreMessages : StoreAddMessage(m)
  \/ \E list \in StoreLists : StoreSetMessages(list)
  \/ StoreClearMessages
  \/ StoreResetConversation

(***************************************************************************)
(* View Documents page: the fetch effect and the inline delete. The        *)
(* repository holds the page twice: documents/page.tsx, whose effect has a *)
(* cancelled flag and whose rows have a Delete button ("inline"), and the  *)
(* paginated page, whose effect calls fetchDocuments without a flag and    *)
(* which has no Delete button ("paginated"). With a page size of 100 the   *)
(* paginated page shows no Load More button for the catalogue of the       *)
(* model.                                                                  *)
(***************************************************************************)
Fetches == 1..MaxFetches
Scopes == {"MY", "COMPANY", "ALL"}
Versions == {"inline", "paginated"}

\* The documents the backend lists for a scope.
InScope(scope) ==
  IF scope = "MY" THEN {"d1"} ELSE IF scope = "COMPANY" THEN {"d2"} ELSE DocIds

MsgLoadFailed == "Failed to load documents."
MsgDeleteFailed == "Failed to delete document."

\* The component state of a page that has just mounted; version "none": no
\* View Documents page is mounted.
FreshView(version, status, scope) ==
  [version |-> version, status |-> status, scope |-> scope, documents |-> {},
   error |-> Absent, loading |-> FALSE, deletingId |-> Absent]
\* A run of the fetch effect: the scope it asked for, the cancelled flag of
\* its closure, and whether its component is unmounted.
IdleFetch == [pc |-> "none", scope |-> "ALL", cancelled |-> FALSE, dead |-> FALSE]
\* A Delete onClick: the documents of the render it was created in.
IdleRemoval == [pc |-> "idle", closure |-> {}, dead |-> FALSE]

InitView ==
  /\ view = FreshView("none", "loading", "ALL")
  /\ fetches = [k \in Fetches |-> IdleFetch]
  /\ removals = [id \in DocIds |-> IdleRemoval]
  /\ catalogue = DocIds

\* The next run of the fetch effect.
nextFetch(k) ==
  fetches[k].pc = "none" /\ \A j \in Fetches : j < k => fetches[j].pc # "none"

\* The effect's cleanup: the inline page sets the cancelled flag of the run
\* before; the paginated page has no cleanup.
cleanedUp(f, version) ==
  [k \in Fetches |->
     IF version = "inline" /\ f[k].pc = "inflight" /\ ~f[k].dead
     THEN [f[k] EXCEPT !.cancelled = TRUE] ELSE f[k]]

\* The effect's body for status "authenticated": setLoading(true),
\* setError(null), getDocuments(knowledgeScope).
fetchDocumentsStarts(v, scope) ==
  \E k \in Fetches :
    /\ nextFetch(k)
    /\ fetches' = [cleanedUp(fetches, v.version) EXCEPT ![k] =
                     [pc |-> "inflight", scope |-> scope, cancelled |-> FALSE,
                      dead |-> FALSE]]
    /\ view' = [v EXCEPT !.scope = scope, !.loading = TRUE, !.error = Absent]

\* The requests of a component that unmounts: React drops their state
\* updates.
unmountedFetches(f) ==
  [k \in Fetches |-> [f[k] EXCEPT !.dead = f[k].dead \/ f[k].pc = "inflight"]]
unmountedRemovals(r) ==
  [id \in DocIds |-> [r[id] EXCEPT !.dead = r[id].dead \/ r[id].pc = "inflight"]]

viewFrame == <<manageVars, authVars, apiVars, chatVars>>

\* The user opens /documents: the page mounts with the session status of
\* useSession and the knowledge scope of the store.
ViewMount(version, status) ==
  /\ view.version = "none"
  /\ IF status = "authenticated"
     THEN fetchDocumentsStarts(FreshView(version, status, view.scope), view.scope)
     ELSE /\ view' = FreshView(version, status, view.scope)
          /\ UNCHANGED fetches
  /\ UNCHANGED <<removals, catalogue, viewFrame>>

\* The user goes to another page of the app.
ViewLeave ==
  /\ view.version # "none"
  /\ view' = FreshView("none", "loading", view.scope)
  /\ fetches' = unmountedFetches(fetches)
  /\ removals' = unmountedRemovals(removals)
  /\ UNCHANGED <<catalogue, viewFrame>>

\* useSession's status changes: the effect runs again; "unauthenticated"
\* pushes /login.
SessionStatus(status) ==
  /\ view.version # "none"
  /\ \/ view.status = "loading" /\ status \in {"authenticated", "unauthenticated"}
     \/ view.status = "authenticated" /\ status = "unauthenticated"
  /\ IF status = "authenticated"
     THEN /\ fetchDocumentsStarts([view EXCEPT !.status = status], view.scope)
          /\ UNCHANGED removals
     ELSE /\ view' = FreshView("none", "loading", view.scope)
          /\ fetches' = unmountedFetches(fetches)
          /\ removals' = unmountedRemovals(removals)
  /\ UNCHANGED <<catalogue, viewFrame>>

\* The scope selector: setKnowledgeScope, and the effect runs again on the
\* mounted page.
ChangeScope(scope) ==
  /\ scope # view.scope
  /\ IF view.version # "none"
     THEN /\ view.status = "authenticated"
          /\ fetchDocumentsStarts(view, scope)
     ELSE /\ view' = [view EXCEPT !.scope = scope]
          /\ UNCHANGED fetches
  /\ UNCHANGED <<removals, catalogue, viewFrame>>

\* getDocuments settles: the list or the error is applied unless the run was
\* cancelled or its component is unmounted.
FetchResponse(k, ok) ==
  /\ fetches[k].pc = "inflight"
  /\ fetches' = [fetches EXCEPT ![k].pc = "done"]
  /\ view' =
       IF fetches[k].dead \/ fetches[k].cancelled THEN view
       ELSE IF ok
            THEN [view EXCEPT !.documents = catalogue \cap InScope(fetches[k].scope),
                              !.loading = FALSE]
            ELSE [view EXCEPT !.documents = {}, !.error = MsgLoadFailed,
                              !.loading = FALSE]
  /\ UNCHANGED <<removals, catalogue, viewFrame>>

\* A row's Delete button, confirmed: setDeletingId, setError(null),
\* deleteDocument.
ViewDeleteClick(id) ==
  /\ view.version = "inline"
  /\ view.status = "authenticated"
  /\ ~view.loading
  /\ id \in view.documents
  /\ view.deletingId # id
  /\ removals[id].pc = "idle"
  /\ view' = [view EXCEPT !.deletingId = id, !.error = Absent]
  /\ removals' = [removals EXCEPT ![id] =
                    [pc |-> "inflight", closure |-> view.documents, dead |-> FALSE]]
  /\ UNCHANGED <<fetches, catalogue, viewFrame>>

\* The list the Delete handler sets after a successful DELETE.
documentsWithout(closure, id) == closure \ {id}

\* deleteDocument settles: setDocuments(documents.filter(...)) or setError,
\* then setDeletingId(null).
ViewDeleteResponse(id, ok) ==
  /\ removals[id].pc = "inflight"
  /\ removals' = [removals EXCEPT ![id] = IdleRemoval]
  /\ catalogue' = IF ok THEN catalogue \ {id} ELSE catalogue
  /\ view' =
       IF removals[id].dead THEN view
       ELSE IF ok
            THEN [view EXCEPT
                    !.documents = documentsWithout(removals[id].closure, id),
                    !.deletingId = Absent]
            ELSE [view EXCEPT !.error = MsgDeleteFailed, !.deletingId = Absent]
  /\ UNCHANGED <<fetches, viewFrame>>

NextView ==
  \/ \E version \in Versions, status \in {"loading", "authenticated"} :
       ViewMount(version, status)
  \/ ViewLeave
  \/ \E status \in {"authenticated", "unauthenticated"} : SessionStatus(status)
  \/ \E scope \in Scopes : ChangeScope(scope)
  \/ \E k \in Fetches, ok \in BOOLEAN : FetchResponse(k, ok)
  \/ \E id \in DocIds : ViewDeleteClick(id)
  \/ \E id \in DocIds, ok \in BOOLEAN : ViewDeleteResponse(id, ok)

(***************************************************************************)
(* Manage Documents page: the specification.                               *)
(***************************************************************************)
Init == InitManage /\ InitAuth /\ InitApi /\ InitChat /\ InitView

Next ==
  \/ Mount /\ UNCHANGED nonManageVars
  \/ LoadMore /\ UNCHANGED nonManageVars
  \/ \E o \in ListOutcomes(known) : ListResponse(o) /\ UNCHANGED nonManageVars
  \/ \E p \in Picks : handleFileChange(p) /\ UNCHANGED nonManageVars
  \/ \E o \in UploadOutcomes(DocIds \ known) : UploadResponse(o) /\ UNCHANGED nonManageVars
  \/ \E o \in ListOutcomes(known) : UploadRefreshResponse(o) /\ UNCHANGED nonManageVars
  \/ \E id \in DocIds, o \in StatusOutcomes : UploadPollResponse(id, o) /\ UNCHANGED nonManageVars
  \/ \E id \in DocIds : UploadPollWake(id) /\ UNCHANGED nonManageVars
  \/ \E id \in DocIds, o \in StatusOutcomes : UploadPollFinal(id, o) /\ UNCHANGED nonManageVars
  \/ \E p \in DelProcs, id \in DocIds : DeleteClick(p, id) /\ UNCHANGED nonManageVars
  \/ \E p \in DelProcs, o \in DeleteOutcomes : DeleteResponse(p, o) /\ UNCHANGED nonManageVars
  \/ \E p \in DelProcs, o \in StatusOutcomes : DeletePollResponse(p, o) /\ UNCHANGED nonManageVars
  \/ \E p \in DelProcs : DeletePollWake(p) /\ UNCHANGED nonManageVars
  \/ \E p \in DelProcs, o \in StatusOutcomes : DeletePollFinal(p, o) /\ UNCHANGED nonManageVars
  \/ \E p \in DelProcs, o \in ListOutcomes(known) : DeleteRefreshResponse(p, o) /\ UNCHANGED nonManageVars
  \/ \E id \in DocIds : RemoveTracking(id) /\ UNCHANGED nonManageVars

vars == <<manageVars, authVars, apiVars, chatVars, viewVars>>

Spec == Init /\ [][Next]_vars

\* The page when no status query ever reports convergence: every answer to the
\* upload poller is short of "in storage and in catalog" or a failure, every
\* answer to the delete poller still has the catalog entry or is a failure
\* other than 404.
PendingForUpload == {o \in StatusOutcomes : ~reportsUploaded(o)}
PendingForDelete == {o \in StatusOutcomes : ~reportsDeleted(o)}

NextStalled ==
  \/ Mount /\ UNCHANGED nonManageVars
  \/ LoadMore /\ UNCHANGED nonManageVars
  \/ \E o \in ListOutcomes(known) : ListResponse(o) /\ UNCHANGED nonManageVars
  \/ \E p \in Picks : handleFileChange(p) /\ UNCHANGED nonManageVars
  \/ \E o \in UploadOutcomes(DocIds \ known) : UploadResponse(o) /\ UNCHANGED nonManageVars
  \/ \E o \in ListOutcomes(known) : UploadRefreshResponse(o) /\ UNCHANGED nonManageVars
  \/ \E id \in DocIds, o \in PendingForUpload : UploadPollResponse(id, o) /\ UNCHANGED nonManageVars
  \/ \E id \in DocIds : UploadPollWake(id) /\ UNCHANGED nonManageVars
  \/ \E id \in DocIds, o \in PendingForUpload : UploadPollFinal(id, o) /\ UNCHANGED nonManageVars
  \/ \E p \in DelProcs, id \in DocIds : DeleteClick(p, id) /\ UNCHANGED nonManageVars
  \/ \E p \in DelProcs, o \in DeleteOutcomes : DeleteResponse(p, o) /\ UNCHANGED nonManageVars
  \/ \E p \in DelProcs, o \in PendingForDelete : DeletePollResponse(p, o) /\ UNCHANGED nonManageVars
  \/ \E p \in DelProcs : DeletePollWake(p) /\ UNCHANGED nonManageVars
  \/ \E p \in DelProcs, o \in PendingForDelete : DeletePollFinal(p, o) /\ UNCHANGED nonManageVars
  \/ \E p \in DelProcs, o \in ListOutcomes(known) : DeleteRefreshResponse(p, o) /\ UNCHANGED nonManageVars

SpecStalled == Init /\ [][NextStalled]_vars

\* The page when the user only uploads: the mount fetch, the file input and
\* the upload poller.
NextUpload ==
  \/ Mount /\ UNCHANGED nonManageVars
  \/ \E o \in ListOutcomes(known) : ListResponse(o) /\ UNCHANGED nonManageVars
  \/ \E p \in Picks : handleFileChange(p) /\ UNCHANGED nonManageVars
  \/ \E o \in UploadOutcomes(DocIds \ known) : UploadResponse(o) /\ UNCHANGED nonManageVars
  \/ \E o \in ListOutcomes(known) : UploadRefreshResponse(o) /\ UNCHANGED nonManageVars
  \/ \E id \in DocIds, o \in StatusOutcomes : UploadPollResponse(id, o) /\ UNCHANGED nonManageVars
  \/ \E id \in DocIds : UploadPollWake(id) /\ UNCHANGED nonManageVars
  \/ \E id \in DocIds, o \in StatusOutcomes : UploadPollFinal(id, o) /\ UNCHANGED nonManageVars

SpecUpload == Init /\ [][NextUpload]_vars

\* The page when the user picks a file that passes validation and Load More is
\* not used: the mount fetch, an upload with its poller, a delete with its
\* poller, and the removal timer, interleaved.
AcceptedPicks ==
  {p \in {Pick(File(<<"a", ".", "p", "d", "f">>, 5 * 1024 * 1024), "Backend", "")} :
     validationError(p) = Absent}

NextPollers ==
  \/ Mount /\ UNCHANGED nonManageVars
  \/ \E o \in ListOutcomes(known) : ListResponse(o) /\ UNCHANGED nonManageVars
  \/ \E p \in AcceptedPicks : handleFileChange(p) /\ UNCHANGED nonManageVars
  \/ \E o \in UploadOutcomes(DocIds \ known) : UploadResponse(o) /\ UNCHANGED nonManageVars
  \/ \E o \in ListOutcomes(known) : UploadRefreshResponse(o) /\ UNCHANGED nonManageVars
  \/ \E id \in DocIds, o \in StatusOutcomes : UploadPollResponse(id, o) /\ UNCHANGED nonManageVars
  \/ \E id \in DocIds : UploadPollWake(id) /\ UNCHANGED nonManageVars
  \/ \E id \in DocIds, o \in StatusOutcomes : UploadPollFinal(id, o) /\ UNCHANGED nonManageVars
  \/ \E p \in DelProcs, id \in DocIds : DeleteClick(p, id) /\ UNCHANGED nonManageVars
  \/ \E p \in DelProcs, o \in DeleteOutcomes : DeleteResponse(p, o) /\ UNCHANGED nonManageVars
  \/ \E p \in DelProcs, o \in StatusOutcomes : DeletePollResponse(p, o) /\ UNCHANGED nonManageVars
  \/ \E p \in DelProcs : DeletePollWake(p) /\ UNCHANGED nonManageVars
  \/ \E p \in DelProcs, o \in StatusOutcomes : DeletePollFinal(p, o) /\ UNCHANGED nonManageVars
  \/ \E p \in DelProcs, o \in ListOutcomes(known) : DeleteRefreshResponse(p, o) /\ UNCHANGED nonManageVars
  \/ \E id \in DocIds : RemoveTracking(id) /\ UNCHANGED nonManageVars

SpecPollers == Init /\ [][NextPollers]_vars

\* The page when every status query either fails or reports convergence: a
\* poller that converges after its first attempt has seen failures only.
FailedOrUploaded == {o \in StatusOutcomes : o.kind = "error" \/ reportsUploaded(o)}
FailedOrDeleted == {o \in StatusOutcomes : o.kind = "error" \/ reportsDeleted(o)}

NextFlaky ==
  \/ Mount /\ UNCHANGED nonManageVars
  \/ \E o \in ListOutcomes(known) : ListResponse(o) /\ UNCHANGED nonManageVars
  \/ \E p \in AcceptedPicks : handleFileChange(p) /\ UNCHANGED nonManageVars
  \/ \E o \in UploadOutcomes(DocIds \ known) : UploadResponse(o) /\ UNCHANGED nonManageVars
  \/ \E o \in ListOutcomes(known) : UploadRefreshResponse(o) /\ UNCHANGED nonManageVars
  \/ \E id \in DocIds, o \in FailedOrUploaded : UploadPollResponse(id, o) /\ UNCHANGED nonManageVars
  \/ \E id \in DocIds : UploadPollWake(id) /\ UNCHANGED nonManageVars
  \/ \E id \in DocIds, o \in FailedOrUploaded : UploadPollFinal(id, o) /\ UNCHANGED nonManageVars
  \/ \E p \in DelProcs, id \in DocIds : DeleteClick(p, id) /\ UNCHANGED nonManageVars
  \/ \E p \in DelProcs, o \in DeleteOutcomes : DeleteResponse(p, o) /\ UNCHANGED nonManageVars
  \/ \E p \in DelProcs, o \in FailedOrDeleted : DeletePollResponse(p, o) /\ UNCHANGED nonManageVars
  \/ \E p \in DelProcs : DeletePollWake(p) /\ UNCHANGED nonManageVars
  \/ \E p \in DelProcs, o \in FailedOrDeleted : DeletePollFinal(p, o) /\ UNCHANGED nonManageVars
  \/ \E p \in DelProcs, o \in ListOutcomes(known) : DeleteRefreshResponse(p, o) /\ UNCHANGED nonManageVars
  \/ \E id \in DocIds : RemoveTracking(id) /\ UNCHANGED nonManageVars

SpecFlaky == Init /\ [][NextFlaky]_vars

\* One call after another through the API client.
SpecApi == Init /\ [][NextApi]_vars

\* The chat page and the navigation around it.
SpecChat == Init /\ [][NextChat]_vars

\* The session bridge alone.
SpecAuth == Init /\ [][NextAuth]_vars

\* The jwt callback on every account and user it can be handed.
SpecJwt == Init /\ [][NextJwt]_vars

\* The store with its operations called in any order.
SpecStore == Init /\ [][NextStore]_vars

\* The View Documents page by itself.
SpecView == Init /\ [][NextView]_vars

\* Two delete flows on a page whose backend holds both documents: clicks on
\* Delete, the pollers and the list refreshes; no upload.
DelFlows == {1, 2}

InitCatalogued ==
  /\ documentStatuses = [i \in DocIds |-> "untracked"]
  /\ documents = {}
  /\ deletingId = Absent
  /\ error = Absent
  /\ uploading = FALSE
  /\ loading = FALSE
  /\ mounted = FALSE
  /\ upl = IdleUpl
  /\ upPoll = [i \in DocIds |-> IdlePoll]
  /\ del = [p \in DelFlows |-> IdleDel]
  /\ listFetch = [pc |-> "idle", append |-> FALSE]
  /\ timers = [i \in DocIds |-> 0]
  /\ known = DocIds
  /\ InitAuth /\ InitApi /\ InitChat /\ InitView

NextDeletes ==
  \/ Mount /\ UNCHANGED nonManageVars
  \/ \E o \in ListOutcomes(known) : ListResponse(o) /\ UNCHANGED nonManageVars
  \/ \E p \in DelFlows, id \in DocIds : DeleteClick(p, id) /\ UNCHANGED nonManageVars
  \/ \E p \in DelFlows, o \in DeleteOutcomes : DeleteResponse(p, o) /\ UNCHANGED nonManageVars
  \/ \E p \in DelFlows, o \in StatusOutcomes : DeletePollResponse(p, o) /\ UNCHANGED nonManageVars
  \/ \E p \in DelFlows : DeletePollWake(p) /\ UNCHANGED nonManageVars
  \/ \E p \in DelFlows, o \in StatusOutcomes : DeletePollFinal(p, o) /\ UNCHANGED nonManageVars
  \/ \E p \in DelFlows, o \in ListOutcomes(known) : DeleteRefreshResponse(p, o) /\ UNCHANGED nonManageVars
  \/ \E id \in DocIds : RemoveTracking(id) /\ UNCHANGED nonManageVars

SpecDeletes == InitCatalogued /\ [][NextDeletes]_vars

(***************************************************************************)
(* Claims about the Manage Documents page.                                 *)
(***************************************************************************)
Terminal == {"uploaded", "deleted"}

\* An upload or a delete of the id has been started.
Submitted(id) ==
  \/ upl.id = id
  \/ upPoll[id].pc # "idle"
  \/ \E p \in DelProcs : del[p].id = id

\* In this step a status check of the id settled and its poller left by one of
\* its convergence exits.
CheckReportedConvergence(id) ==
  \/ upPoll[id].pc \in {"query", "final"} /\ upPoll'[id].exit \in {"loop", "final"}
  \/ \E p \in DelProcs :
       /\ del[p].id = id
       /\ del[p].pc \in {"query", "final"}
       /\ del'[p].exit \in {"loop", "final"}

\* C1: for every submitted id, the status entry takes a terminal value only in
\* a step in which a status check of that id reported convergence, and a
\* terminal value is never replaced by another value (the entry may be removed
\* from tracking, and an uploaded document may start a delete).
C1_StatusSequence ==
  [][\A id \in DocIds :
       Submitted(id) =>
         /\ (documentStatuses'[id] \in Terminal /\ documentStatuses'[id] # documentStatuses[id]
               => CheckReportedConvergence(id))
         /\ (documentStatuses[id] = "uploaded"
               => documentStatuses'[id] \in {"uploaded", "deleting", "untracked"})
         /\ (documentStatuses[id] = "deleted"
               => documentStatuses'[id] \in {"deleted", "untracked"})]_vars

\* The pollers of the page, as records with the id they poll.
Pollers ==
  {[kind |-> "upload", id |-> id, p |-> upPoll[id]] : id \in DocIds}
    \cup {[kind |-> "delete", id |-> del[q].id, p |-> del[q]] : q \in DelProcs}

Polling(P) == P.p.pc \in {"query", "wait", "final"}
Returned(P) == P.p.exit # "none"

\* The next step of a poller can always be taken.
PollerCanStep ==
  /\ \A id \in DocIds :
       /\ upPoll[id].pc = "query" => ENABLED (\E o \in PendingForUpload : UploadPollResponse(id, o))
       /\ upPoll[id].pc = "wait" => ENABLED UploadPollWake(id)
       /\ upPoll[id].pc = "final" => ENABLED (\E o \in PendingForUpload : UploadPollFinal(id, o))
  /\ \A q \in DelProcs :
       /\ del[q].pc = "query" => ENABLED (\E o \in PendingForDelete : DeletePollResponse(q, o))
       /\ del[q].pc = "wait" => ENABLED DeletePollWake(q)
       /\ del[q].pc = "final" => ENABLED (\E o \in PendingForDelete : DeletePollFinal(q, o))

\* C2 as stated: when no status query reports convergence, a poller that has
\* returned has issued exactly MaxAttempts status queries and did not report
\* success.
C2_ExactlyBudgetQueries ==
  \A P \in Pollers :
    Returned(P) => P.p.queries = MaxAttempts /\ P.p.exit = "exhausted" /\ P.p.result # "true"

\* C2 amended: when no status query reports convergence, a poller issues
\* MaxAttempts queries in its loop and one final check, MaxAttempts + 1 in all,
\* with one interval wait between consecutive queries; it can always take its
\* next step, does so at most 2 * MaxAttempts + 1 times, and returns by the
\* exhausted exit without reporting success.
C2_BudgetPlusFinalCheck ==
  /\ PollerCanStep
  /\ \A P \in Pollers :
       /\ Polling(P) \/ Returned(P) =>
            /\ P.p.queries = P.p.waits + 1
            /\ P.p.waits = P.p.attempt
            /\ P.p.attempt <= MaxAttempts
       /\ P.p.pc = "final" => P.p.attempt = MaxAttempts
       /\ P.p.pc \in {"query", "wait"} => P.p.attempt < MaxAttempts
       /\ Returned(P) =>
            /\ P.p.queries = MaxAttempts + 1
            /\ P.p.waits = MaxAttempts
            /\ P.p.exit = "exhausted"
            /\ P.p.result # "true"

\* C2 witness: an upload poller and a delete poller have both run out of
\* attempts.
C2_Witness ==
  /\ \E id \in DocIds : upPoll[id].exit = "exhausted"
  /\ \E q \in DelProcs : del[q].exit = "exhausted" /\ del[q].result = "false"

\* C3: a poller that leaves by exhaustion leaves the id at its non-terminal
\* value and returns something other than what it returns on convergence.
C3_TimeoutSignal ==
  [][/\ \A id \in DocIds :
          upPoll[id].exit = "none" /\ upPoll'[id].exit = "exhausted" =>
            /\ documentStatuses'[id] = "uploading"
            /\ upPoll'[id].result \notin {uploadReturn("loop"), uploadReturn("final")}
     /\ \A q \in DelProcs :
          del[q].exit = "none" /\ del'[q].exit = "exhausted" =>
            /\ documentStatuses'[del[q].id] = "deleting"
            /\ del'[q].result \notin {deleteReturn("loop"), deleteReturn("final")}]_vars

\* An answer of the verification endpoint that rejects the email domain: an
\* HTTP 403 whose detail gives "Email domain not allowed" as the reason.
DomainRejection(o) ==
  /\ o.kind = "error"
  /\ o.error.status = 403
  /\ o.error.data.detail \in {StrVal(DetailDomain), StrVal(DetailDomainLong)}
\* Any other failed verification: another error, or a 2xx without a token.
OtherFailure(o) ==
  /\ ~DomainRejection(o)
  /\ o.kind = "error" \/ o.token \in {Undefined, ""}
\* The verification request of a sign-in (verify or verify-email) is answered
\* with o.
VerificationAnswered(o) == VerifyResponse(o) \/ VerifyEmailResponse(o)

\* C4: when the verification request of a sign-in is answered with 403 and a
\* detail naming the domain rejection, the jwt callback throws: no session
\* comes into being and no backendToken, userId or isAdmin is stored.
C4_DomainRejectionThrows ==
  [][\A o \in VerifyOutcomes :
       VerificationAnswered(o) /\ DomainRejection(o) =>
         /\ jwtOutcome' = [kind |-> "threw", message |-> "Email domain not allowed"]
         /\ ~signedIn'
         /\ stored' = NoToken]_vars

\* C4 witness: a sign-in has ended with the callback throwing.
C4_Witness == jwtOutcome.kind = "threw" /\ ~signedIn /\ jwt.pc = "idle"

\* C5: when the verification request of a sign-in fails otherwise (timeout,
\* network error, 5xx, 401, a 403 without the domain reason, a 2xx without
\* token), the callback returns a token, so the session exists, with
\* backendToken null (not undefined), isAdmin false and a non-empty
\* backendError.
C5_DegradedSignIn ==
  [][\A o \in VerifyOutcomes :
       VerificationAnswered(o) /\ OtherFailure(o) =>
         /\ jwtOutcome'.kind = "returned"
         /\ signedIn'
         /\ stored'.backendToken = Null
         /\ stored'.isAdmin = "false"
         /\ stored'.backendError \notin {Undefined, Null, ""}]_vars

\* C5 witness: a session whose sign-in got a 2xx without token from the backend.
C5_Witness ==
  /\ signedIn
  /\ stored.backendToken = Null
  /\ stored.backendError = "Backend response missing token"

\* C6: a sign-in sends exactly one verification request, never a second one,
\* and every later invocation of the jwt callback returns the token as it was
\* stored and sends nothing.
C6_ExchangeOnce ==
  [][/\ verifyRequests' <= 1
     /\ jwtOutcome'.kind \in {"returned", "threw"} => verifyRequests' = 1
     /\ SessionRequest =>
          /\ stored' = stored
          /\ verifyRequests' = verifyRequests
          /\ jwtOutcome'.kind = "returned"
          /\ jwt'.pc = "idle"]_vars

\* C6 witness: a session with a backend token after MaxCalls later invocations.
C6_Witness ==
  /\ signedIn
  /\ calls = MaxCalls
  /\ verifyRequests = 1
  /\ stored.backendToken = "backend-jwt"

\* C7: a call whose response has status 401 is rejected with the fixed
\* re-authenticate message, whatever the body holds, and exactly one request
\* was sent for it.
C7_Reauthenticate ==
  req.pc = "settled" /\ req.response.kind = "error" /\ req.response.error.status = 401 =>
    /\ req.result = [kind |-> "rejected", message |-> MsgReauthenticate]
    /\ req.sent = 1

\* C7 witness: a call answered 401 with a body that has a detail and a message.
C7_Witness ==
  /\ req.pc = "settled"
  /\ req.response.kind = "error"
  /\ req.response.error.status = 401
  /\ Truthy(req.response.error.data.detail)
  /\ Truthy(req.response.error.data.message)

\* C8: an accepted send appends its USER message in the step that issues the
\* request, and in every state a reply or error notice of a send stands after
\* the USER message of that send.
C8_UserBeforeReply ==
  [][/\ \A n \in Sends :
          sends[n].pc = "none" /\ sends'[n].pc = "inflight" =>
            messages' = Append(messages, UserMessage(n))
     /\ \A i \in 1..Len(messages') :
          messages'[i].kind \in {"reply", "error"} =>
            \E j \in 1..(i - 1) : messages'[j] = UserMessage(messages'[i].of)]_vars

\* A request carries a body when its config still has a payload other than
\* null and the empty string.
carriesBody(config) ==
  config.data.t \notin {"absent", "null"} /\ config.data # StrVal("")

\* C9: a GET or HEAD request that has passed the request interceptor carries
\* no body, whatever payload the caller gave.
C9_NoBodyOnGetHead ==
  req.pc \in {"sent", "settled"} /\ toUpperCase(req.config.method) \in {"GET", "HEAD"} =>
    ~carriesBody(req.config)

\* The upload policy, stated on the file and the form: at most 10 MB, a name
\* that ends in one of the four extensions (in any case), and a category, which
\* for "Other" is the custom category, that is not blank.
EndsWith(name, suffix) ==
  /\ Len(name) >= Len(suffix)
  /\ \A i \in 1..Len(suffix) :
       LowerChar(name[Len(name) - Len(suffix) + i]) = suffix[i]
Blank(text) == text \in {"", " "}
WithinPolicy(p) ==
  /\ p.file # NoFile
  /\ p.file.size <= 10 * 1024 * 1024
  /\ \E suffix \in allowedTypes : EndsWith(p.file.name, suffix)
  /\ IF p.category = "Other" THEN ~Blank(p.customCategory) ELSE ~Blank(p.category)

\* C10: a file-input change issues the upload request exactly when the pick is
\* within the policy; for any other file it sets an error and leaves the
\* upload handler idle (no request) and the pollers as they were; a poller is
\* started only by the refresh of an upload whose pick was within the policy.
C10_UploadPolicy ==
  [][/\ upl.pc = "idle" /\ upPoll' = upPoll /\ del' = del /\ listFetch' = listFetch =>
          \A p \in Picks :
            handleFileChange(p) =>
            IF WithinPolicy(p)
            THEN upl'.pc = "upload" /\ upl'.pick.file = p.file /\ uploading'
            ELSE /\ (p.file # NoFile => error' # Absent)
                 /\ upl' = upl /\ upl.pc = "idle" /\ ~uploading'
                 /\ upPoll' = upPoll /\ del' = del /\ listFetch' = listFetch
     /\ upl'.pc # "idle" => WithinPolicy(upl'.pick)
     /\ \A id \in DocIds :
          upPoll[id].pc = "idle" /\ upPoll'[id].pc # "idle" =>
            upl.pc = "refresh" /\ upl.id = id /\ WithinPolicy(upl.pick)]_vars

\* C10 witness: after an upload that started a poller, a 12 MB file has been
\* refused.
C10_Witness ==
  /\ error = ErrFileSize
  /\ upl.pc = "idle"
  /\ \E id \in DocIds : upPoll[id].pc # "idle"

\* C11: a check of the delete poller that reports the catalog entry gone,
\* whatever it reports about the stored file, tags the id "deleted", schedules
\* the removal of the tag and makes the poller return success without another
\* query; when it is the first check, the id is "deleted" after one query.
C11_DeletedWhenCatalogEntryGone ==
  [][\A p \in DelProcs, o \in StatusOutcomes :
       (/\ o.kind = "ok" /\ ~o.exists_in_db
        /\ DeletePollResponse(p, o) \/ DeletePollFinal(p, o)) =>
         /\ documentStatuses'[del[p].id] = "deleted"
         /\ timers'[del[p].id] = timers[del[p].id] + 1
         /\ del'[p].result = "true"
         /\ del'[p].exit \in {"loop", "final"}
         /\ del'[p].queries = del[p].queries
         /\ del[p].attempt = 0 => del'[p].queries = 1]_vars

\* The first check found the catalog entry gone: one query, tag "deleted",
\* removal pending, success returned.
C11_Witness ==
  \E p \in DelProcs :
    /\ del[p].exit = "loop" /\ del[p].queries = 1 /\ del[p].result = "true"
    /\ documentStatuses[del[p].id] = "deleted"
    /\ timers[del[p].id] > 0

\* C12: a check of the upload poller that reports the document in storage and
\* in the catalog tags the id "uploaded" and ends the poller; every other
\* status body in the loop leaves the id "uploading" and the poller waiting
\* for one interval.
C12_UploadedWhenStoredAndCatalogued ==
  [][\A id \in DocIds, o \in StatusOutcomes :
       /\ (reportsUploaded(o) /\ (UploadPollResponse(id, o) \/ UploadPollFinal(id, o))) =>
            /\ documentStatuses'[id] = "uploaded"
            /\ upPoll'[id].pc = "done"
            /\ upPoll'[id].exit \in {"loop", "final"}
       /\ (o.kind = "ok" /\ ~reportsUploaded(o) /\ UploadPollResponse(id, o)) =>
            /\ documentStatuses'[id] = "uploading"
            /\ upPoll'[id].pc = "wait"]_vars

\* The session holds a string credential with the given property.
HoldsCredential(s, Usable(_)) ==
  s.kind = "session" /\ s.backendToken.t = "str" /\ Usable(s.backendToken.v)

NonEmpty(v) == v # ""
NonBlank(v) == ~Blank(v)

\* C13 as stated: whenever the session holds a non-empty string credential the
\* request is sent with "Authorization: Bearer <credential>"; otherwise, and
\* when the session lookup fails, it is sent without the header.
C13_BearerWheneverNonEmpty ==
  [][\A s \in Sessions :
       SessionResolved(s) =>
         /\ req'.pc = "sent" /\ req'.sent = 1
         /\ req'.config.authorization =
              IF HoldsCredential(s, NonEmpty) THEN "Bearer " \o s.backendToken.v
              ELSE Absent]_vars

\* C13 amended: the header is attached exactly when the credential is a string
\* that is not empty after trimming white space; a request is sent once for
\* every session, with or without the header.
C13_BearerWheneverNonBlank ==
  [][\A s \in Sessions :
       SessionResolved(s) =>
         /\ req'.pc = "sent" /\ req'.sent = 1
         /\ req'.config.authorization =
              IF HoldsCredential(s, NonBlank) THEN "Bearer " \o s.backendToken.v
              ELSE Absent]_vars

\* A request went out once, carrying the session's credential.
C13_Witness ==
  /\ req.pc = "sent" /\ req.sent = 1
  /\ req.config.authorization = "Bearer backend-jwt"

\* The default text of the class a status without server text falls in.
ClassDefault(status) ==
  CASE status = 403 -> MsgPermissionDenied
    [] status = 404 -> MsgNotFound
    [] status = 400 -> MsgBadRequest
    [] status >= 500 -> MsgServerError
    [] OTHER -> MsgGeneric

\* C14: a failed request is rejected with the message of the one class its
\* outcome falls in (unreachable for a network failure, the validation message
\* for 422, re-authenticate for 401); for 403, 404, 400 and 5xx the message is
\* the detail of the response body whenever the body carries one, and the
\* default text of the class when the body carries no text.
C14_ClassByOutcomeDetailSurfaced ==
  (req.pc = "settled" /\ req.response.kind = "error") =>
    LET e == req.response.error
        m == req.result.message
        network == e.code = "ECONNREFUSED" \/ e.message = "Network Error"
        carriesDetail == Truthy(e.data.detail) /\ e.data.detail.t = "str"
    IN /\ req.result.kind = "rejected"
       /\ network => m = MsgUnreachable
       /\ ~network /\ e.status = 422 => m = ValidationMessage(e.data)
       /\ ~network /\ e.status = 401 => m = MsgReauthenticate
       /\ ~network /\ (e.status \in {403, 404, 400} \/ e.status >= 500) =>
            /\ carriesDetail => m = e.data.detail.v
            /\ ~Truthy(e.data.detail) /\ ~Truthy(e.data.message) => m = ClassDefault(e.status)

\* The first list is an initial segment of the second.
IsPrefix(a, b) == Len(a) <= Len(b) /\ SubSeq(b, 1, Len(a)) = a

\* C15 as stated: every store operation leaves the previous message list a
\* prefix of the new one, except clearMessages.
C15_OnlyClearTruncates ==
  [][IsPrefix(messages, messages') \/ StoreClearMessages]_vars

\* C15 amended: addMessage extends the list by the message at its end,
\* clearMessages and resetConversation empty it, setMessages replaces it by
\* its argument; the list is shortened or rewritten by those three only.
C15_AppendClearOrReplace ==
  [][/\ \A m \in StoreMessages :
          StoreAddMessage(m) =>
            /\ IsPrefix(messages, messages')
            /\ Len(messages') = Len(messages) + 1
            /\ messages'[Len(messages')] = m
     /\ StoreClearMessages \/ StoreResetConversation => messages' = <<>>
     /\ \A list \in StoreLists : StoreSetMessages(list) => messages' = list
     /\ ~IsPrefix(messages, messages') =>
          \/ StoreClearMessages
          \/ StoreResetConversation
          \/ \E list \in StoreLists : StoreSetMessages(list)]_vars

\* A list that was put in place by setMessages and then extended by
\* addMessage.
C15_Witness ==
  /\ Len(messages) = Len(History) + 1
  /\ SubSeq(messages, 1, Len(History)) = History
  /\ messages[Len(messages)] = UserMessage(1)

\* In this step the poller of the id starts, or a status check of it settles,
\* or the removal timer it set fires.
PollerWrites(id) ==
  \/ upPoll[id].pc = "idle" /\ upPoll'[id].pc \in {"query", "final"}
  \/ upPoll[id].pc \in {"query", "final"} /\ upPoll'[id] # upPoll[id]
  \/ \E p \in DelProcs :
       /\ del[p].id = id
       /\ \/ del[p].pc = "request" /\ del'[p].pc \in {"query", "final"}
          \/ del[p].pc \in {"query", "final"} /\ del'[p] # del[p]
  \/ timers'[id] < timers[id]

\* C16: the status of an id is set when its poller starts and changed only by
\* steps of that poller; the list fetch, Load More, the upload handler and
\* the error handlers leave every status as it is.
C16_OnlyPollerWritesStatus ==
  [][\A id \in DocIds :
       documentStatuses'[id] # documentStatuses[id] => PollerWrites(id)]_vars

\* In this step the upload poller or the delete poller of the id moved: a
\* status check of it settled or its interval timer fired.
PollerStep(id) ==
  \/ upPoll[id].pc \in {"query", "wait", "final"} /\ upPoll'[id] # upPoll[id]
  \/ \E p \in DelProcs :
       del[p].id = id /\ del[p].pc \in {"query", "wait", "final"} /\ del'[p] # del[p]

\* Nothing that belongs to the id changes in this step: its status, its
\* removal timers, its pollers with their attempt counters.
Untouched(id) ==
  /\ documentStatuses'[id] = documentStatuses[id]
  /\ timers'[id] = timers[id]
  /\ upPoll'[id] = upPoll[id]
  /\ \A p \in DelProcs : del[p].id = id => del'[p] = del[p]

\* Whatever the other pollers are doing, a poller that has a status check
\* outstanding can receive a converged answer, and one that waits can wake.
PollerCanConverge ==
  /\ \A id \in DocIds :
       /\ upPoll[id].pc = "query" =>
            ENABLED UploadPollResponse(id, StatusBody(TRUE, TRUE, TRUE))
       /\ upPoll[id].pc = "wait" => ENABLED UploadPollWake(id)
       /\ upPoll[id].pc = "final" =>
            ENABLED UploadPollFinal(id, StatusBody(TRUE, TRUE, TRUE))
  /\ \A p \in DelProcs :
       /\ del[p].pc = "query" => ENABLED DeletePollResponse(p, StatusBody(FALSE, FALSE, FALSE))
       /\ del[p].pc = "wait" => ENABLED DeletePollWake(p)
       /\ del[p].pc = "final" => ENABLED DeletePollFinal(p, StatusBody(FALSE, FALSE, FALSE))

\* C17: a step of the poller of one id leaves the status, the timers and the
\* poller of every other id as they were; a poller can take its next step
\* whatever the pollers of other ids are doing, and a converged answer to
\* its check, in the loop or as the final check, gives its id the terminal
\* status.
C17_PollersIndependent ==
  [][/\ \A a \in DocIds, b \in DocIds : a # b /\ PollerStep(a) => Untouched(b)
     /\ PollerCanConverge
     /\ \A b \in DocIds :
          (\/ UploadPollResponse(b, StatusBody(TRUE, TRUE, TRUE))
           \/ UploadPollFinal(b, StatusBody(TRUE, TRUE, TRUE))) =>
            documentStatuses'[b] = "uploaded"
     /\ \A p \in DelProcs :
          (\/ DeletePollResponse(p, StatusBody(FALSE, FALSE, FALSE))
           \/ DeletePollFinal(p, StatusBody(FALSE, FALSE, FALSE))) =>
            documentStatuses'[del[p].id] = "deleted"]_vars

\* The upload poller of one id is waiting in its last attempt without having
\* converged, and the delete poller of another id, after a wait of its own,
\* found it deleted.
C17_Witness ==
  \E a \in DocIds, p \in DelProcs :
    /\ del[p].id \in DocIds /\ del[p].id # a
    /\ upPoll[a].pc = "wait" /\ upPoll[a].attempt = MaxAttempts - 1
    /\ del[p].exit \in {"loop", "final"}
    /\ del[p].attempt > 0
    /\ documentStatuses[del[p].id] = "deleted"

\* A failed status query that is not a 404: the network is down, the server
\* answers 5xx.
TransientFailures == {o \in StatusOutcomes : o.kind = "error" /\ o.error.status # 404}

C19_NotFoundMeansDeleted ==
  [][\A p \in DelProcs, o \in StatusOutcomes :
       (/\ o.kind = "error" /\ o.error.status = 404
        /\ DeletePollResponse(p, o) \/ DeletePollFinal(p, o)) =>
         /\ documentStatuses'[del[p].id] = "deleted"
         /\ timers'[del[p].id] = timers[del[p].id] + 1
         /\ del'[p].result = "true"]_vars

\* A value that is there: neither undefined nor null nor the empty string.
Given(v) == v \notin {Undefined, Null, ""}

\* What the jwt callback does for a sign-in once it knows there is no id
\* token: one request to /verify-email for a user with an email, and without
\* one no request, a null credential and the reason.
WithoutIdToken(user) ==
  IF Given(user.email)
  THEN jwt'.pc = "verifyEmail" /\ verifyRequests' = 1
  ELSE /\ jwt'.pc = "idle" /\ verifyRequests' = 0
       /\ signedIn'
       /\ stored'.backendToken = Null
       /\ Given(stored'.backendError)

\* C20: a sign-in sends at most one verification request: to /auth/verify
\* when the account has an id token, and then none to /auth/verify-email even
\* when the request fails; to /auth/verify-email when there is no id token
\* but an email; with neither, none, and the token is returned with a null
\* credential and a reason.
C20_OneVerificationByIdentity ==
  [][/\ verifyRequests' <= 1
     /\ \A account \in Accounts, user \in Users :
          JwtSignIn(account, user) =>
            IF Given(account.id_token)
            THEN jwt'.pc = "verify" /\ verifyRequests' = 1
            ELSE IF Given(account.access_token)
            THEN jwt'.pc = "userinfo" /\ verifyRequests' = 0
            ELSE WithoutIdToken(user)
     /\ jwt.pc = "userinfo" /\ jwt'.pc # "userinfo" => WithoutIdToken(jwt.user)
     /\ jwt.pc \in {"verify", "verifyEmail"} =>
          /\ jwt'.pc = "idle"
          /\ verifyRequests' = verifyRequests]_vars

\* A sign-in with neither an id token nor an email ended with no request
\* sent, a null credential and the reason recorded.
C20_Witness ==
  /\ signedIn
  /\ verifyRequests = 0
  /\ stored.backendToken = Null
  /\ stored.backendError = "No ID token or email available from Google OAuth"

\* C21: the credential is destroyed by a 401: once a chat request has been
\* answered 401, no request issued afterwards carries the Authorization header
\* that request carried.
C21_CredentialDestroyedOn401 ==
  [][\A n \in Sends :
       /\ sends[n].pc = "done"
       /\ sends[n].status = 401
       /\ sends[n].authorization # Absent
       => \A k \in Sends :
            sends[k].pc = "none" /\ sends'[k].pc = "inflight" =>
              sends'[k].authorization # sends[n].authorization]_vars

\* C22: once a send has completed successfully, no message of that exchange
\* in the transcript carries a client-generated id.
C22_NoClientIdAfterReply ==
  \A n \in Sends :
    sends[n].pc \in {"refresh", "done"} /\ sends[n].status = 200 =>
      \A i \in 1..Len(messages) :
        messages[i].of = n => messages[i].id # "client"

\* C23: when the request of an accepted send fails, the step that handles the
\* failure appends exactly one error notice behind the transcript, which
\* still holds the user message of that send, sets the error banner and
\* leaves loading false.
C23_FailedSendLeavesTrace ==
  [][\A n \in Sends :
       sends[n].pc = "inflight" /\ sends'[n].pc = "done" /\ sends'[n].status # 200 =>
         /\ messages' = Append(messages, ErrorMessage(n))
         /\ \E i \in 1..Len(messages) : messages[i] = UserMessage(n)
         /\ chat'.error # Absent
         /\ ~chat'.loading]_vars

\* C25: when the user returns to the chat page by a route without sessionId
\* while the store holds the id of the last active conversation, the page has
\* that id as its conversationId once the mount effects have run.
C25_ConversationRestoredOnReturn ==
  [][Return /\ currentConversationId # Absent =>
       chat'.conversationId = currentConversationId]_vars

\* C27: a send whose user message is no longer in the transcript when its
\* request settles (the transcript was cleared or replaced in between) appends
\* nothing.
C27_StaleResultNotAppended ==
  [][\A n \in Sends :
       /\ sends[n].pc = "inflight"
       /\ sends'[n].pc \in {"refresh", "done"}
       /\ ~\E i \in 1..Len(messages) : messages[i] = UserMessage(n)
       => messages' = messages]_vars

\* C28: a message sent from the page on which the previous send was answered,
\* with that exchange still at the end of the transcript, carries the
\* conversation_id that the answer returned.
C28_FollowUpCarriesConversation ==
  [][\A n \in Sends :
       /\ n + 1 \in Sends
       /\ sends[n].pc = "done" /\ sends[n].status = 200 /\ ~sends[n].stale
       /\ Len(messages) >= 2
       /\ messages[Len(messages) - 1] = UserMessage(n)
       /\ messages[Len(messages)] = AssistantMessage(n)
       /\ sends[n + 1].pc = "none" /\ sends'[n + 1].pc = "inflight"
       => sends'[n + 1].conversationId = responseConversation(n)]_vars

\* C29: after a click on New Chat the page has no conversationId, so the
\* next message is sent with conversation_id null.
C29_NewChatStartsConversation ==
  [][handleNewChat => chat'.conversationId = Absent]_vars

\* A delete flow that has started and not finished.
InFlow(p) == del[p].pc \notin {"idle", "done"}

\* C26: while a delete flow on a document is in progress the Delete button of
\* that document is disabled, and no two flows in progress are on the same
\* document.
C26_DeleteDisabledDuringFlow ==
  /\ \A p \in DelFlows : InFlow(p) => deleteDisabled(del[p].id)
  /\ \A p, q \in DelFlows :
       p # q /\ InFlow(p) /\ InFlow(q) => del[p].id # del[q].id

\* The most recently started run of the fetch effect.
LatestFetch(k) ==
  fetches[k].pc # "none" /\ \A j \in Fetches : j > k => fetches[j].pc = "none"

\* C24: the result of a fetch whose view was left since, or after which the
\* effect has run again (the scope or the session status changed), changes
\* neither documents, error nor loading of the view.
C24_StaleFetchDiscarded ==
  [][\A k \in Fetches :
       /\ fetches[k].pc = "inflight" /\ fetches'[k].pc = "done"
       /\ (fetches[k].dead \/ ~LatestFetch(k))
       => /\ view'.documents = view.documents
          /\ view'.error = view.error
          /\ view'.loading = view.loading]_vars

\* C30: when the page has handled a successful DELETE, no document whose
\* DELETE has succeeded is in the displayed list.
C30_DeletedStaysAbsent ==
  [][\A id \in DocIds :
       /\ removals[id].pc = "inflight" /\ ~removals[id].dead
       /\ removals'[id].pc = "idle"
       /\ id \notin catalogue'
       => \A gone \in DocIds \ catalogue' : gone \notin view'.documents]_vars

====
